---- MODULE Spec2Model ----
(***************************************************************************)
(* A model of lexref: the reference extractor (token sequences, targets,   *)
(* the recent cycle) and its orchestrator (Reflector).                     *)
(*                                                                         *)
(* Python values are modelled as follows.  None is the string "None".  An  *)
(* AxisRole is the string of its name; RoleValue gives its number.  A      *)
(* StdCoordinate is a record [axis, value, role]; a Target and a Cycle are *)
(* sequences.  An exception raised by a function is the "exc" field of the *)
(* record the modelling operator returns ("ok" when none is raised).       *)
(***************************************************************************)
EXTENDS Integers, Sequences, FiniteSets, TLC

None == "None"

(***************************************************************************)
(* model/group.py                                                          *)
(***************************************************************************)
AxisRoleNames ==
    {"domain", "document", "container", "annex", "leaf", "paragraph",
     "phrase", "mixed", "token"}

RoleValue(r) ==
    CASE r = "domain" -> 0
      [] r = "document" -> 1
      [] r = "container" -> 2
      [] r = "annex" -> 3
      [] r = "leaf" -> 4
      [] r = "paragraph" -> 5
      [] r = "phrase" -> 6
      [] r = "mixed" -> 10
      [] r = "token" -> 20

\* Group.named_entity.name and the tag the generic_context handler gives the
\* anonymous axis of a lone back-reference (Group.connector.name).
GroupNamedEntity == "named_entity"
GroupConnector == "connector"

(***************************************************************************)
(* model/tables.py.  The rows of the axis table are data (static/axis.csv  *)
(* is loaded into patterns.db); the rows used here are the axes of         *)
(* tests/test_structures.py with the roles given there, TRT and REG as     *)
(* documents, SNT as a phrase axis.  Levels grow from document to phrase;  *)
(* containers are ordered PRT < TIT < CHP as test_contextualize requires.  *)
(***************************************************************************)
AxisRows ==
    [TRT |-> [role |-> "document", level |-> 1],
     REG |-> [role |-> "document", level |-> 1],
     DIR |-> [role |-> "document", level |-> 1],
     DEC |-> [role |-> "document", level |-> 1],
     PRT |-> [role |-> "container", level |-> 11],
     TIT |-> [role |-> "container", level |-> 12],
     CHP |-> [role |-> "container", level |-> 13],
     ANX |-> [role |-> "annex", level |-> 13],
     ART |-> [role |-> "leaf", level |-> 14],
     PG  |-> [role |-> "paragraph", level |-> 15],
     LTR |-> [role |-> "paragraph", level |-> 16],
     SNT |-> [role |-> "phrase", level |-> 17]]

tag_2_level == [a \in DOMAIN AxisRows |-> AxisRows[a].level]

tag_2_role ==
    [a \in DOMAIN AxisRows \cup {GroupNamedEntity, ""} |->
        IF a = GroupNamedEntity THEN "document"
        ELSE IF a = "" THEN "paragraph"
        ELSE AxisRows[a].role]

\* CacheWrapper.get over Axis.tag_2_role: dict.get with a default.
t2r_get(tag, default) ==
    IF tag \in DOMAIN tag_2_role THEN tag_2_role[tag] ELSE default

\* Value.backref
backref == {"XPREVX", "BRCRPL", "THEREOF"}

\* The keys of the named_entity table that the model uses.
NamedEntityKeys == {"TEEC"}

\* Axis.tag_2_standard(language): the axes that have a display string.
AxesWithStandard == DOMAIN AxisRows

(***************************************************************************)
(* structures.py: Cycle                                                    *)
(***************************************************************************)
\* list.pop(): drop the last element (IndexError on an empty list cannot
\* happen in turn, which has just inserted).
PopLast(s) == SubSeq(s, 1, Len(s) - 1)

\* Cycle.turn(item): insert at the head, then pop the tail if len(item) >
\* self.length.
turn(cycle, length, item) ==
    LET ins == <<item>> \o cycle
    IN  IF Len(item) > length THEN PopLast(ins) ELSE ins

(***************************************************************************)
(* structures.py: StdCoordinate, _standardize                              *)
(***************************************************************************)
StdCoordinate(a, v, r) == [axis |-> a, value |-> v, role |-> r]

celexer_cases == {"REG", "DEC", "DIR", "FDC"}

(***************************************************************************)
(* celex_handling.py.  An ordinate is a string; its lexing                 *)
(* (ordinate.split()[-1].split('/') and the parenthesised sub-domain list) *)
(* is tabulated for the ordinates the model uses: chunks holds the '/'     *)
(* separated parts of the last blank-separated chunk, a part that int()    *)
(* rejects being -1, and dom is the first sub-domain in lower case, or     *)
(* None when the ordinate has no parenthesis.  The ordinates are "a/b" and *)
(* "(EU) a/b" for the numbers a and b of OrdNumbers, and two that are no   *)
(* pair of numbers.                                                        *)
(***************************************************************************)
MAX_YEAR == 2026
MIN_YEAR == 1944

\* Below 100 (shifted out of and into the range of years), neither below
\* 100 nor a year, years before and after 2015, and more than four digits
OrdNumbers == {39, 95, 575, 679, 2013, 2016, 12345}

OrdinateText(dom, a, b) ==
    (IF dom = "eu" THEN "(EU) " ELSE "") \o ToString(a) \o "/" \o ToString(b)

OrdinateRows ==
    {[text |-> OrdinateText(dom, a, b), chunks |-> <<a, b>>, dom |-> dom] :
        dom \in {None, "eu"}, a \in OrdNumbers, b \in OrdNumbers}
    \cup {[text |-> "2004/39/EC", chunks |-> <<2004, 39, -1>>, dom |-> None],
          [text |-> "of the Council", chunks |-> << -1 >>, dom |-> None]}

Ordinates ==
    [o \in {r.text : r \in OrdinateRows} |->
        LET r == CHOOSE x \in OrdinateRows : x.text = o
        IN  [chunks |-> r.chunks, dom |-> r.dom]]

_year_test(n) == MAX_YEAR >= n /\ n >= MIN_YEAR

\* A Python str as the sequence of its characters, where its length and
\* its slices matter: str(n) of a natural number,
RECURSIVE str(_)
str(n) == IF n < 10 THEN <<ToString(n)>>
          ELSE str(n \div 10) \o <<ToString(n % 10)>>

\* s.zfill(width),
RECURSIVE zfill(_, _)
zfill(s, width) == IF Len(s) >= width THEN s ELSE zfill(<<"0">> \o s, width)

\* ''.join(chars),
RECURSIVE joined(_)
joined(chars) == IF chars = <<>> THEN "" ELSE Head(chars) \o joined(Tail(chars))

\* and int(chars): -1 stands for the ValueError of a string that is no number.
DigitValue(c) ==
    IF \E d \in 0..9 : ToString(d) = c
    THEN CHOOSE d \in 0..9 : ToString(d) = c
    ELSE -1

RECURSIVE int(_)
int(chars) ==
    IF chars = <<>> \/ \E i \in 1..Len(chars) : DigitValue(chars[i]) < 0 THEN -1
    ELSE IF Len(chars) = 1 THEN DigitValue(chars[1])
    ELSE 10 * int(SubSeq(chars, 1, Len(chars) - 1))
            + DigitValue(chars[Len(chars)])

\* chars[a:b] with 0 <= a <= b
Slice(chars, a, b) ==
    IF a >= Len(chars) THEN <<>>
    ELSE SubSeq(chars, a + 1, IF b < Len(chars) THEN b ELSE Len(chars))

\* _build_celex: the two numbers in the order in which they are written,
\* and the characters of the identifier.
_build_celex_parts(year0, number, pre, inter) ==
    LET year == IF year0 < 100 THEN year0 + 1900 ELSE year0
    IN  IF _year_test(number) /\ ~_year_test(year)
        THEN [first |-> number, second |-> year,
              chars |-> <<pre>> \o zfill(str(number), 4) \o <<inter>>
                            \o str(year)]
        ELSE [first |-> year, second |-> number,
              chars |-> <<pre>> \o str(year) \o <<inter>>
                            \o zfill(str(number), 4)]

_build_celex(year0, number, pre, inter) ==
    joined(_build_celex_parts(year0, number, pre, inter).chars)

\* number, year = [int(n) for n in ...split('/')] succeeds.
reg_parses(o) ==
    /\ Len(Ordinates[o].chunks) = 2
    /\ \A i \in 1..2 : Ordinates[o].chunks[i] >= 0

\* year, number = [int(n) for n in ...split('/')[:2]] succeeds.
direc_parses(o) ==
    /\ Len(Ordinates[o].chunks) >= 2
    /\ \A i \in 1..2 : Ordinates[o].chunks[i] >= 0

RECURSIVE _celex_getter_reg(_, _), _celex_getter_direc(_, _, _)

\* depth is the value of f.recursion_depth when the wrapper of
\* limit_recursion_depth(1) is entered.
_celex_getter_reg(ordinate, depth) ==
    IF depth + 1 > 1 THEN [exc |-> "RecursionError", celex |-> None]
    ELSE IF ~reg_parses(ordinate)
         THEN _celex_getter_direc("R", ordinate, depth + 1)
    ELSE LET number == Ordinates[ordinate].chunks[1]
             year == Ordinates[ordinate].chunks[2]
             swap == /\ Ordinates[ordinate].dom \in {"eu", "ue"}
                     /\ number >= 2015
         IN  [exc |-> "ok",
              celex |-> IF swap THEN _build_celex(number, year, "3", "R")
                        ELSE _build_celex(year, number, "3", "R")]

_celex_getter_direc(inter, ordinate, depth) ==
    IF direc_parses(ordinate)
    THEN [exc |-> "ok",
          celex |-> _build_celex(Ordinates[ordinate].chunks[1],
                                 Ordinates[ordinate].chunks[2], "3", inter)]
    ELSE \* the fall-back through the Regulation handler; whenever this parse
         \* fails, the Regulation handler's parse fails as well, so the call
         \* comes back here and ends in the recursion guard.
         _celex_getter_reg(ordinate, depth)

\* CelexHandler.convert(axis_tag, value, language) -> celex
celexer_convert(axis_tag, value) ==
    IF axis_tag = "REG" THEN _celex_getter_reg(value, 0)
    ELSE _celex_getter_direc(
            CASE axis_tag = "DEC" -> "D"
              [] axis_tag = "DIR" -> "L"
              [] axis_tag = "FDC" -> "F",
            value, 0)

\* The CELEX identifiers that CelexHandler.invert can turn into a citation:
\* those convert has produced from the model's ordinates.
KnownCelex ==
    {celexer_convert(a, o).celex : a \in celexer_cases,
                                   o \in {x \in DOMAIN Ordinates :
                                            direc_parses(x)}}

\* Value.extract_as_number(expression, tag, language): the number a spoken
\* rank stands for, None when no pattern matches.
extract_as_number(expression) ==
    CASE expression = "first" -> "1"
      [] expression = "second" -> "2"
      [] OTHER -> None

\* NamedEntity.key_pattern(language): the key whose pattern matches the text,
\* None when no pattern does.
named_entity_key(text) ==
    CASE text = "Treaty establishing the European Economic Community" -> "TEEC"
      [] OTHER -> None

\* A Coordinate of the syntax tree, as far as standardisation reads it: the
\* tag of its axis token, the tag and the text of its value token, the
\* value's suffix and the level nesting compares.
Node(a, vt, txt, lvl) ==
    [axis |-> a, vtag |-> vt, text |-> txt, suffix |-> None, level |-> lvl]

\* _standardize(axis_tag, value_tag, value, language)
_standardize(axis_tag, value_tag, value) ==
    IF value_tag \in backref
    THEN [exc |-> "ok",
          std |-> StdCoordinate(axis_tag, value_tag, t2r_get(axis_tag, None))]
    ELSE IF axis_tag = "ANX"
    THEN [exc |-> "ok",
          std |-> IF value_tag = "ANX"
                  THEN StdCoordinate("ANX", None, "container")
                  ELSE StdCoordinate("ANX", value, "leaf")]
    ELSE IF axis_tag \in celexer_cases
    THEN LET tag == IF value_tag = "EUFCOO" THEN "FDC" ELSE axis_tag
             c == celexer_convert(tag, value)
         IN  [exc |-> c.exc, std |-> StdCoordinate(tag, c.celex, "document")]
    ELSE IF value_tag \in {"SRNK", "SPN"}
    THEN [exc |-> "ok",
          std |-> StdCoordinate(axis_tag, extract_as_number(value),
                                t2r_get(axis_tag, "paragraph"))]
    ELSE IF axis_tag = GroupNamedEntity /\ named_entity_key(value) # None
    THEN [exc |-> "ok",
          std |-> StdCoordinate("PND", named_entity_key(value), "document")]
    ELSE [exc |-> "ok",
          std |-> StdCoordinate(axis_tag, value,
                                t2r_get(axis_tag, "paragraph"))]

\* Coordinate.standardized(language), after result = _standardize(...):
\* result.value + self.value.suffix
with_suffix(r, suffix) ==
    IF r.exc = "ok" /\ suffix # None
    THEN IF r.std.value = None
         THEN [exc |-> "TypeError", std |-> r.std]
         ELSE [exc |-> "ok",
               std |-> StdCoordinate(r.std.axis, r.std.value \o suffix,
                                     r.std.role)]
    ELSE r

\* Coordinate.standardized(language)
standardized(node) ==
    with_suffix(_standardize(node.axis, node.vtag, node.text), node.suffix)

(***************************************************************************)
(* structures.py: Target                                                   *)
(***************************************************************************)
Range(s) == {s[i] : i \in 1..Len(s)}

\* list.insert(k, x) for 0 <= k <= len (k counts from 0, as in the source).
Insert(s, k, x) == SubSeq(s, 1, k) \o <<x>> \o SubSeq(s, k + 1, Len(s))

\* list.pop(k) for 0 <= k < len: the list without the element at index k.
PopAt(s, k) == SubSeq(s, 1, k) \o SubSeq(s, k + 2, Len(s))

\* Target.has_backref
has_backref(t) == Len(t) > 0 /\ t[1].value \in backref

\* Target.ultimate_role: the role of the head, None for an empty target.
ultimate_role(t) == IF Len(t) = 0 THEN None ELSE t[1].role

\* Target.role: the common role, "mixed", or InconsistentTargetError.
role(t) ==
    LET roles == {t[i].role : i \in 1..Len(t)}
    IN  IF Cardinality(roles) = 1 THEN CHOOSE r \in roles : TRUE
        ELSE IF /\ "container" \in roles
                /\ roles # {"container", "document"}
                /\ "ANX" \notin {t[i].axis : i \in 1..Len(t)}
             THEN "InconsistentTargetError"
             ELSE "mixed"

\* The number of container coordinates that _add_container_context inserts:
\* those before the first one that has the target's start axis.
RECURSIVE ContextPrefixLen(_, _, _)
ContextPrefixLen(container, start_axis, k) ==
    IF k > Len(container) \/ container[k].axis = start_axis THEN k - 1
    ELSE ContextPrefixLen(container, start_axis, k + 1)

\* A context that is put behind the target instead of in front of it.
_add_container_context_appending(self, container) ==
    IF role(self) # "container" \/ container[1].axis = self[1].axis
    THEN [exc |-> "ok", target |-> self]
    ELSE [exc |-> "ok",
          target |-> self \o SubSeq(container, 1,
                                    ContextPrefixLen(container,
                                                     self[1].axis, 1))]

\* Target._add_container_context(container)
_add_container_context(self, container) ==
    LET start_axis == self[1].axis
    IN  IF role(self) = "InconsistentTargetError"
        THEN [exc |-> "InconsistentTargetError", target |-> self]
        ELSE IF role(self) # "container"
        THEN [exc |-> "ok", target |-> self]
        ELSE IF \/ start_axis \notin DOMAIN tag_2_level
                \/ container[1].axis \notin DOMAIN tag_2_level
        THEN [exc |-> "KeyError", target |-> self]
        ELSE IF tag_2_level[start_axis] <= tag_2_level[container[1].axis]
        THEN [exc |-> "ok", target |-> self]
        ELSE [exc |-> "ok",
              target |-> SubSeq(container, 1,
                                ContextPrefixLen(container, start_axis, 1))
                         \o self]

\* document=None
NoDocument == StdCoordinate(None, None, None)

\* Target._add_document(document)
_add_document(self, document) ==
    IF self[1].role \in {"paragraph", "document"} THEN self
    ELSE <<document>> \o self

\* A test for a phrase at any place of the target
holds_phrase(self) == \E i \in 1..Len(self) : self[i].role = "phrase"

\* self[-1].role == AxisRole.phrase
ends_in_phrase(self) == self[Len(self)].role = "phrase"

\* Target.contextualize(container, document); a context that is not given
\* (None) is the empty sequence for container and NoDocument for document.
contextualize(self, container, document) ==
    IF ends_in_phrase(self)
    THEN [exc |-> "UnsupportedRole", target |-> self]
    ELSE LET t1 == SelectSeq(self, LAMBDA c : c.role # "phrase")
         IN  IF t1[1].role = "document" THEN [exc |-> "ok", target |-> t1]
             ELSE LET r == IF container # <<>>
                           THEN _add_container_context(t1, container)
                           ELSE [exc |-> "ok", target |-> t1]
                  IN  IF r.exc # "ok" THEN r
                      ELSE IF document # NoDocument
                      THEN [exc |-> "ok",
                            target |-> _add_document(r.target, document)]
                      ELSE r

\* Coordinate.get_target(language, container, document): path is the
\* root-to-node path of the coordinate in the syntax tree.
get_target_of(stds, container, document) ==
    LET bad == {i \in 1..Len(stds) : stds[i].exc # "ok"}
    IN  IF bad # {}
        THEN [exc |-> stds[CHOOSE i \in bad : \A j \in bad : i <= j].exc,
              target |-> <<>>]
        ELSE IF stds = <<>> THEN [exc |-> "ok", target |-> <<>>]
        ELSE contextualize([i \in 1..Len(stds) |-> stds[i].std],
                           container, document)

\* The coordinates from the root down to this one, without those of value
\* XTHISX, each standardized.
standardized_path(kept) == [i \in 1..Len(kept) |-> standardized(kept[i])]

get_target(path, container, document) ==
    get_target_of(
        standardized_path(SelectSeq(path, LAMBDA n : n.vtag # "XTHISX")),
        container, document)

\* The first loop of Target.join for an anonymous back-reference: walks the
\* recent targets p = previous[k..] and their coordinates; br is the value
\* of the variable backref so far.  found tells whether the outer loop was
\* left by break.
RECURSIVE AnonymousWalkInner(_, _, _, _)
AnonymousWalkInner(p, j, axis1, br) ==
    \* returns the value of backref after the inner loop and whether it broke
    IF j > Len(p) THEN [backref |-> br, broke |-> FALSE]
    ELSE IF p[j].axis = axis1 THEN [backref |-> br, broke |-> TRUE]
    ELSE AnonymousWalkInner(p, j + 1, axis1, p[j])

RECURSIVE AnonymousWalk(_, _, _, _)
AnonymousWalk(previous, k, axis1, br) ==
    IF k > Len(previous) THEN [backref |-> br, found |-> FALSE]
    ELSE LET r == AnonymousWalkInner(previous[k], 1, axis1, br)
         IN  IF r.broke THEN [backref |-> r.backref, found |-> TRUE]
             ELSE AnonymousWalk(previous, k + 1, axis1, r.backref)

\* The second loop of Target.join: the index (from 1) of the coordinate of
\* other at which the loop breaks, 0 when it runs to its end.
RECURSIVE JoinBreakIndex(_, _, _)
JoinBreakIndex(other, br, i) ==
    IF i > Len(other) THEN 0
    ELSE IF other[i].role # br.role THEN JoinBreakIndex(other, br, i + 1)
    ELSE IF br.role \in {"document", "leaf"} THEN i
    ELSE IF br.role = "container" /\ br.axis = other[i].axis THEN i
    ELSE JoinBreakIndex(other, br, i + 1)

\* Target.join(previous).  Returns the exception raised ("ok" when none),
\* the target as the call leaves it (join works in place, so a failed join
\* may leave inserted coordinates behind) and the recent target chosen.
join(self, previous) ==
    LET b0 == IF self[1].axis = "TRT"
              THEN StdCoordinate("PND", self[1].value, self[1].role)
              ELSE self[1]
        anonymous == b0.role = None
        walk == AnonymousWalk(previous, 1, self[2].axis, b0)
        fail(e) == [exc |-> e, target |-> self, other |-> <<>>]
    IN  IF anonymous /\ ~walk.found
           /\ (previous = <<>> \/ previous[1] = <<>>)
        THEN fail("IndexError")
        ELSE
        LET br == IF ~anonymous THEN b0
                  ELSE IF walk.found THEN walk.backref
                  ELSE previous[1][1]
            hits == {k \in 1..Len(previous) :
                        br.axis \in {previous[k][i].axis :
                                        i \in 1..Len(previous[k])}}
        IN  IF hits = {} THEN fail("JoiningError")
            ELSE
            LET other == previous[CHOOSE k \in hits : \A h \in hits : k <= h]
                i == JoinBreakIndex(other, br, 1)
            IN  IF i = 0
                THEN [exc |-> "JoiningError", target |-> other \o self,
                      other |-> other]
                ELSE [exc |-> "ok",
                      target |-> SubSeq(other, 1, i) \o Tail(self),
                      other |-> other]

\* StdCoordinate.collated raises RuntimeError for a coordinate with a value
\* and a role other than paragraph, document, container or leaf.
collated_raises(c) ==
    c.value # None
    /\ c.role \notin {"paragraph", "document", "container", "leaf"}

IsAbsoluteUrl(value) == value \in {"http://example.org/act"}

\* Target.get_href(domain), as far as raising goes: "ok", or the exception.
get_href_exc(self) ==
    IF self[1].role = "document"
    THEN IF IsAbsoluteUrl(self[1].value)
         THEN IF Len(self) = 1 THEN "ok" ELSE "AssertionError"
         ELSE IF Len(self) = 1 THEN "ok"
         ELSE IF self[2].role \notin {"container", "leaf"}
         THEN "AssertionError"
         ELSE IF \E i \in 3..Len(self) : collated_raises(self[i])
         THEN "RuntimeError"
         ELSE "ok"
    ELSE IF \E i \in 1..Len(self) : collated_raises(self[i])
         THEN "RuntimeError"
         ELSE "ok"

\* StdCoordinate.get_spoken(language) raises: a PND whose value is no key of
\* the named-entity table, a CELEX-bearing axis whose value invert cannot
\* turn into a citation.
get_spoken_raises(c) ==
    \/ c.axis = "PND" /\ c.value \notin NamedEntityKeys
    \/ c.axis # "PND" /\ ~(c.value = None /\ c.axis = "ANX")
       /\ c.axis \in celexer_cases /\ c.value \notin KnownCelex

\* Target.get_spoken(language), as far as raising goes.
get_spoken_exc(self) ==
    IF \E i \in 1..Len(self) : get_spoken_raises(self[i])
    THEN "LookupError" ELSE "ok"

(***************************************************************************)
(* token_sequences.py: the body of the loop of                             *)
(* TokenSequences.iter_references for one coordinate                       *)
(***************************************************************************)
\* The except clauses with JoiningError among the silently skipped ones.
except_clause_silent_join(exc) ==
    IF exc = "InconsistentTargetError" THEN "break"
    ELSE IF exc \in {"AssertionError", "UnsupportedRole", "JoiningError"}
    THEN "continue"
    ELSE "count"

\* The except clauses with InconsistentTargetError counted, the loop going
\* on.
except_clause_no_break(exc) ==
    IF exc \in {"AssertionError", "UnsupportedRole"} THEN "continue"
    ELSE "count"

\* Which except clause of iter_references catches an exception: "break"
\* (count and leave the sequence), "continue" (skip silently) or "count"
\* (count and go on with the next coordinate).
except_clause(exc) ==
    IF exc = "InconsistentTargetError" THEN "break"
    ELSE IF exc \in {"AssertionError", "UnsupportedRole"} THEN "continue"
    ELSE "count"

\* The filter as the docstring of iter_references words it.
min_role_allows_strict(ultimate, min_role) ==
    RoleValue(ultimate) < RoleValue(min_role)

\* assert target.ultimate_role.value <= min_role.value
min_role_allows(ultimate, min_role) == RoleValue(ultimate) <= RoleValue(min_role)

\* What one pass of the loop body did: exc and site name the exception and
\* the statement that raised it, clause the except clause taken ("yield"
\* when the reference was emitted), target the target as the pass left it,
\* deepest the new value of deepest, joined whether join was called and
\* returned, other the recent target join chose.
Pass(e, site, t, d, jd, o) ==
    [exc |-> e, site |-> site,
     clause |-> IF e = "ok" THEN "yield" ELSE except_clause(e),
     target |-> t, deepest |-> d, joined |-> jd, other |-> o]

\* From the assertion on min_role to the yield; t is the target and d the
\* value of deepest.
emit(t, d, hb, other, min_role) ==
    IF ultimate_role(t) = None \/ min_role = None
    THEN Pass("AttributeError", "assert min_role", t, d, hb, other)
    ELSE IF ~min_role_allows(ultimate_role(t), min_role)
    THEN Pass("AssertionError", "assert min_role", t, d, hb, other)
    ELSE IF get_href_exc(t) # "ok"
    THEN Pass(get_href_exc(t), "get_href", t, d, hb, other)
    ELSE IF get_spoken_exc(t) # "ok"
    THEN Pass(get_spoken_exc(t), "get_spoken", t, d, hb, other)
    ELSE Pass("ok", "yield", t, d, hb, other)

\* After target.join(self.recent), whose outcome is j.  When alias holds,
\* deepest names the list object that target names, and join works in
\* place.
joined_target(j, hb, alias, deep, min_role) ==
    IF j.exc # "ok"
    THEN Pass(j.exc, "join", j.target, IF alias THEN j.target ELSE deep,
              FALSE, j.other)
    ELSE emit(j.target, IF alias THEN j.target ELSE deep, hb, j.other,
              min_role)

\* After target = coordinate.get_target(...), whose outcome is g.
got_target(g, min_role, recents, deep) ==
    IF g.exc # "ok"
    THEN Pass(g.exc, "get_target", g.target, deep, FALSE, <<>>)
    ELSE IF g.target = <<>>
    THEN Pass("AssertionError", "assert target", <<>>, deep, FALSE, <<>>)
    ELSE IF ~(Len(g.target) > 1 \/ ~has_backref(g.target))
    THEN Pass("AssertionError", "assert lone backref", g.target, deep,
              FALSE, <<>>)
    ELSE joined_target(IF has_backref(g.target) THEN join(g.target, recents)
                       ELSE [exc |-> "ok", target |-> g.target,
                             other |-> <<>>],
                       has_backref(g.target), Len(g.target) > Len(deep),
                       deep, min_role)

\* One pass of the loop body.  recents is self.recent, deep the variable
\* deepest.
iter_references_body(path, container, document, min_role, recents, deep) ==
    got_target(get_target(path, container, document), min_role, recents,
               deep)

(***************************************************************************)
(* token_sequences.py: TokenSequence.  A sequence is a list of items, each *)
(* a ReferenceToken or a Coordinate.  A token has its group, its tag and   *)
(* its span; a Coordinate has the group coordinate, the tag "#", its axis  *)
(* and value tokens, and the level that was assigned to it (NoLevel when   *)
(* none was: the level is then inferred from the axis).  The k-th token    *)
(* of the text has the span (k, k + 1); tail tells whether the token has   *)
(* a tail, which the sequencer gives to every token but the last of a      *)
(* sequence.                                                               *)
(***************************************************************************)
NoLevel == -1

Tok(g, t, a, b, tl) ==
    [group |-> g, tag |-> t, start |-> a, end |-> b, tail |-> tl]

NoTok == Tok(None, None, -1, -1, FALSE)

\* A token as an item of a sequence
Item(tok) ==
    [group |-> tok.group, tag |-> tok.tag, start |-> tok.start,
     end |-> tok.end, tail |-> tok.tail, axis |-> NoTok, value |-> NoTok,
     level |-> NoLevel]

\* ReferenceToken(ReferenceTag(group, tag), Span(k, k + 1), tail=...)
Token(g, t, k, tl) == Item(Tok(g, t, k, k + 1, tl))

\* The token an item of a group other than coordinate is
AsTok(x) == Tok(x.group, x.tag, x.start, x.end, x.tail)

\* Coordinate(axis, value), with Coordinate.span
CoordinateOf(axis, value, lvl) ==
    [group |-> "coordinate", tag |-> "#",
     start |-> IF axis.start < value.start THEN axis.start ELSE value.start,
     end |-> IF axis.end > value.end THEN axis.end ELSE value.end,
     tail |-> FALSE, axis |-> axis, value |-> value, level |-> lvl]

\* ReferenceToken.anonymous_axis(position, tag)
anonymous_axis(position, tag) ==
    Tok("axis", tag, position, position, FALSE)

\* Value.tag_2_group(): the group of each tag of the tag table.
ConnectorTags ==
    {"AND", "COM", "LF", "RC", "OTHERX", "SPCLPR", "XDESUX", "SPPLCR",
     "THEREOF", "BRCRPL", "SEPARATE"}
ValueTags ==
    {"NM", "AL_BB", "ROM_U", "AMBRA_BB", "SRNK", "LATIN", "XPREVX", "XTHISX"}
AxisTags == DOMAIN AxisRows

\* _compatible(key1, key2): the two value tags could refer to the same axis.
TagStem(k) ==
    CASE k = "AL_BB" -> "AL" [] k = "ROM_U" -> "ROM" [] k = "AMBRA_BB" -> "AMBRA"
      [] OTHER -> k
TagSuffix(k) ==
    CASE k = "AL_BB" -> "BB" [] k = "ROM_U" -> "U" [] k = "AMBRA_BB" -> "BB"
      [] OTHER -> ""
compatible(key1, key2) ==
    IF key1 = key2 THEN TRUE
    ELSE IF "AMBRA" \notin {TagStem(key1), TagStem(key2)} THEN FALSE
    ELSE IF TagSuffix(key1) # TagSuffix(key2) THEN FALSE
    ELSE (IF TagStem(key1) # "AMBRA" THEN TagStem(key1) ELSE TagStem(key2))
            \in {"AL", "ROM"}

\* _Axis_compatible(ax1, ax2)
Axis_compatible(ax1, ax2) ==
    IF ax1 \notin DOMAIN tag_2_role \/ ax2 \notin DOMAIN tag_2_role THEN TRUE
    ELSE LET roles == {tag_2_role[ax1], tag_2_role[ax2]}
         IN  IF "container" \in roles
             THEN Cardinality(roles) = 1 \/ "document" \in roles
             ELSE TRUE

IsCoordinate(x) == x.group = "coordinate"

\* list.pop(i) and list.insert(i, x) on a sequence; i counts from 0.
Without(s, i) == SubSeq(s, 1, i) \o SubSeq(s, i + 2, Len(s))

\* The sequence without the items at the (1-based) indices in rm
RECURSIVE WithoutAll(_, _, _)
WithoutAll(s, rm, i) ==
    IF i > Len(s) THEN <<>>
    ELSE (IF i \in rm THEN <<>> ELSE <<s[i]>>) \o WithoutAll(s, rm, i + 1)

\* The indices _pop_for collects going forward (dir = 1, from i = 1) or
\* backward (dir = -1, from i = Len(s)): with break_on_false, those up to
\* the first item that fails the test.
RECURSIVE PopRun(_, _, _, _)
PopRun(s, test(_), i, dir) ==
    IF i < 1 \/ i > Len(s) \/ ~test(s[i]) THEN {}
    ELSE {i} \cup PopRun(s, test, i + dir, dir)

\* The token tests of _cleanup
IsPlainConnector(t) ==
    t.group = "connector" /\ t.tag \notin {"THEREOF", "BRCRPL"}

IsPlainValue(t) == t.group = "value" /\ t.tag # "SRNK"

\* TagPattern orphan_axes, (?<![XPREVX:SRNK])Group.axis$, searched in values
orphan_axes(s) ==
    /\ Len(s) >= 1
    /\ s[Len(s)].group = "axis"
    /\ Len(s) >= 2 => ~(s[Len(s) - 1].group # "named_entity"
                          /\ s[Len(s) - 1].tag \in {"XPREVX", "SRNK"})

\* GroupPattern axis_connector, ^axis:connector, searched in groups
axis_connector(s) ==
    Len(s) >= 2 /\ s[1].group = "axis" /\ s[2].group = "connector"

\* TagPattern of_day, SPCLPR:NM$
of_day(s) ==
    /\ Len(s) >= 2
    /\ s[Len(s) - 1].group = "connector" /\ s[Len(s) - 1].tag = "SPCLPR"
    /\ s[Len(s)].group = "value" /\ s[Len(s)].tag = "NM"

\* TagPattern first_end, SRNK$
first_end(s) ==
    Len(s) >= 1 /\ s[Len(s)].group = "value" /\ s[Len(s)].tag = "SRNK"

\* The steps of one pass of _cleanup, each on the list the step before left
cleanup_1a(s) ==
    WithoutAll(s, PopRun(s, IsPlainConnector, Len(s), -1)
                  \cup PopRun(s, IsPlainConnector, 1, 1), 1)

cleanup_1b(s) == WithoutAll(s, PopRun(s, IsPlainValue, 1, 1), 1)

cleanup_orphan_axes(s) ==
    IF orphan_axes(s) /\ s[Len(s)].tag # "ANX"
    THEN SubSeq(s, 1, IF Len(s) >= 2 THEN Len(s) - 2 ELSE 0)
    ELSE s

cleanup_axis_connector(s) ==
    IF axis_connector(s) /\ s[1].tag # "ANX" THEN SubSeq(s, 3, Len(s)) ELSE s

cleanup_single(s) ==
    IF Len(s) = 1 /\ s[1].group # "named_entity" /\ s[1].tag # "ANX"
    THEN <<>> ELSE s

\* The last two steps do not set effect.
cleanup_of_day(s) == IF of_day(s) THEN SubSeq(s, 1, Len(s) - 2) ELSE s

cleanup_first_end(s) ==
    IF first_end(s) /\ Len(s) # 2 THEN SubSeq(s, 1, Len(s) - 1) ELSE s

cleanup_effect(s) ==
    cleanup_single(cleanup_axis_connector(cleanup_orphan_axes(
        cleanup_1b(cleanup_1a(s)))))

\* One pass of the body of _cleanup: the list it leaves, and not effect
cleanup_pass(s) ==
    [list |-> cleanup_first_end(cleanup_of_day(cleanup_effect(s))),
     done |-> cleanup_effect(s) = s]

\* repeat_until_true(limit=16)
CLEANUP_LIMIT == 16

RECURSIVE _cleanup_from(_, _)
_cleanup_from(s, n) ==
    IF n = 0 THEN s
    ELSE IF cleanup_pass(s).done THEN cleanup_pass(s).list
    ELSE _cleanup_from(cleanup_pass(s).list, n - 1)

\* TokenSequence._cleanup()
_cleanup(s) == _cleanup_from(s, CLEANUP_LIMIT)

(***************************************************************************)
(* token_sequences.py: the coordination battery.  A handler returns the    *)
(* exception it raised ("ok" when none) and the list it left.  The matches *)
(* of a pattern are found in the list as the handler finds it, from the    *)
(* left and without overlap, and are handled from the last to the first.   *)
(* Indices count from 1; a match is the index i of its first item and the  *)
(* index e of its last.                                                    *)
(***************************************************************************)
Ok(list) == [exc |-> "ok", list |-> list]

Raise(e, list) == [exc |-> e, list |-> list]

At(s, i, g) == i >= 1 /\ i <= Len(s) /\ s[i].group = g

TagAt(s, i, tags) ==
    i >= 1 /\ i <= Len(s) /\ s[i].group \notin {"named_entity", "coordinate"}
    /\ s[i].tag \in tags

Replace(s, i, x) == [s EXCEPT ![i] = x]

\* Coordinate.level: the level assigned, else Coordinate._infer_level();
\* -1 stands for its KeyError.
level(x) ==
    IF x.level # NoLevel THEN x.level
    ELSE IF x.axis.tag \in DOMAIN tag_2_level THEN tag_2_level[x.axis.tag]
    ELSE IF x.value.group = "named_entity" THEN 10
    ELSE -1

\* The end of the run of items of group g that starts at i (i - 1 if none)
RECURSIVE RunEnd(_, _, _)
RunEnd(s, i, g) == IF At(s, i, g) THEN RunEnd(s, i + 1, g) ELSE i - 1

\* generic_context: [BRCRPL:THEREOF]
RECURSIVE generic_context_matches(_, _)
generic_context_matches(s, i) ==
    IF i > Len(s) THEN <<>>
    ELSE (IF TagAt(s, i, {"BRCRPL", "THEREOF"}) THEN <<[i |-> i, e |-> i]>>
          ELSE <<>>) \o generic_context_matches(s, i + 1)

\* single_token_2_coordinate(i, group)
single_token_2_coordinate(s, i, group, lvl) ==
    Replace(s, i, CoordinateOf(anonymous_axis(s[i].start, group),
                               AsTok(s[i]), lvl))

generic_context_effect(s, m) ==
    Ok(single_token_2_coordinate(s, m.i, GroupConnector, 10))

\* fourth_directive: SRNK[REG:DIR:DEC]
RECURSIVE fourth_directive_matches(_, _)
fourth_directive_matches(s, i) ==
    IF i > Len(s) THEN <<>>
    ELSE IF TagAt(s, i, {"SRNK"}) /\ TagAt(s, i + 1, {"REG", "DIR", "DEC"})
    THEN <<[i |-> i, e |-> i + 1]>> \o fourth_directive_matches(s, i + 2)
    ELSE fourth_directive_matches(s, i + 1)

\* self[i] = ReferenceToken(axis.tag, Span(this.span.start, axis.span.end),
\* axis.text + axis.tail + this.text, tail=axis.tail)
fourth_directive_effect(s, m) ==
    IF ~s[m.e].tail THEN Raise("TypeError", s)
    ELSE Ok(Replace(s, m.i, Item(Tok(s[m.e].group, s[m.e].tag, s[m.i].start,
                                     s[m.e].end, s[m.e].tail))))

\* spoken_latin: (?<=Group.value)LATIN
RECURSIVE spoken_latin_matches(_, _)
spoken_latin_matches(s, i) ==
    IF i > Len(s) THEN <<>>
    ELSE (IF TagAt(s, i, {"LATIN"}) /\ At(s, i - 1, "value")
          THEN <<[i |-> i, e |-> i]>> ELSE <<>>)
         \o spoken_latin_matches(s, i + 1)

\* prev takes the end and the tail of this, which is popped (the suffix prev
\* gets is text)
spoken_latin_effect(s, m) ==
    Ok(Without(Replace(s, m.i - 1,
                       [s[m.i - 1] EXCEPT !.end = s[m.i].end,
                                          !.tail = s[m.i].tail]),
               m.i - 1))

\* spoken_rank: SRNK(Group.connector:SRNK)*Group.axis
RECURSIVE FollowersEnd(_, _)
FollowersEnd(s, i) ==
    IF At(s, i + 1, "connector") /\ TagAt(s, i + 2, {"SRNK"})
    THEN FollowersEnd(s, i + 2) ELSE i

RECURSIVE spoken_rank_matches(_, _)
spoken_rank_matches(s, i) ==
    IF i > Len(s) THEN <<>>
    ELSE IF TagAt(s, i, {"SRNK"}) /\ At(s, FollowersEnd(s, i) + 1, "axis")
    THEN <<[i |-> i, e |-> FollowersEnd(s, i) + 1]>>
         \o spoken_rank_matches(s, FollowersEnd(s, i) + 2)
    ELSE spoken_rank_matches(s, i + 1)

spoken_rank_effect(s, m) ==
    Ok([k \in 1..(Len(s) - 1) |->
          IF k < m.i THEN s[k]
          ELSE IF k >= m.e THEN s[k + 1]
          ELSE IF s[k].group = "connector" THEN s[k]
          ELSE CoordinateOf(AsTok(s[m.e]), AsTok(s[k]), NoLevel)])

\* coordinates: (axis:value|named_entity)
RECURSIVE coordinates_matches(_, _)
coordinates_matches(s, i) ==
    IF i > Len(s) THEN <<>>
    ELSE IF At(s, i, "axis") /\ At(s, i + 1, "value")
    THEN <<[i |-> i, e |-> i + 1]>> \o coordinates_matches(s, i + 2)
    ELSE IF At(s, i, "named_entity")
    THEN <<[i |-> i, e |-> i]>> \o coordinates_matches(s, i + 1)
    ELSE coordinates_matches(s, i + 1)

coordinates_effect(s, m) ==
    IF m.e = m.i
    THEN Ok(single_token_2_coordinate(s, m.i, GroupNamedEntity, NoLevel))
    ELSE Ok(Without(Replace(s, m.i, CoordinateOf(AsTok(s[m.i]), AsTok(s[m.e]),
                                                 NoLevel)),
                    m.i))

\* re_reference: [XPREVX]Group.axis
RECURSIVE re_reference_matches(_, _)
re_reference_matches(s, i) ==
    IF i > Len(s) THEN <<>>
    ELSE IF TagAt(s, i, {"XPREVX"}) /\ At(s, i + 1, "axis")
    THEN <<[i |-> i, e |-> i + 1]>> \o re_reference_matches(s, i + 2)
    ELSE re_reference_matches(s, i + 1)

\* ReferenceToken.quasi_value(value, span, text)
quasi_value(value, tok) == Tok("value", value, tok.start, tok.end, FALSE)

re_reference_effect(s, m) ==
    Ok(Without(Replace(s, m.i,
                       CoordinateOf(AsTok(s[m.e]),
                                    quasi_value(s[m.i].tag, s[m.i]),
                                    NoLevel)),
               m.i))

\* range_connected: Group.coordinate:Group.value:RC:Group.value(?!Group.value)
RECURSIVE range_connected_matches(_, _)
range_connected_matches(s, i) ==
    IF i > Len(s) THEN <<>>
    ELSE IF /\ At(s, i, "coordinate") /\ At(s, i + 1, "value")
            /\ TagAt(s, i + 2, {"RC"}) /\ At(s, i + 3, "value")
            /\ ~At(s, i + 4, "value")
    THEN <<[i |-> i, e |-> i + 3]>> \o range_connected_matches(s, i + 4)
    ELSE range_connected_matches(s, i + 1)

range_connected_effect(s, m) ==
    IF ~compatible(s[m.i + 1].tag, s[m.e].tag) THEN Ok(s)
    ELSE IF level(s[m.i]) = -1 THEN Raise("KeyError", s)
    ELSE Ok([s EXCEPT
               ![m.i + 1] = CoordinateOf(anonymous_axis(s[m.i + 1].start, ""),
                                         AsTok(s[m.i + 1]),
                                         level(s[m.i]) + 1),
               ![m.e] = CoordinateOf(anonymous_axis(s[m.i + 1].start, ""),
                                     AsTok(s[m.e]), level(s[m.i]) + 1)])

\* connector_value:
\* (?P<leader>coordinate)value*(?P<buddies>(connector:value+)+)
\* (?P<after>coordinate)?
\* The end of the buddies, whose repetition at k has been seen to match
RECURSIVE BuddiesEnd(_, _)
BuddiesEnd(s, k) ==
    IF /\ At(s, RunEnd(s, k + 1, "value") + 1, "connector")
       /\ At(s, RunEnd(s, k + 1, "value") + 2, "value")
    THEN BuddiesEnd(s, RunEnd(s, k + 1, "value") + 1)
    ELSE RunEnd(s, k + 1, "value")

\* The match that starts at i, with bs the first buddy; be is its last
connector_value_match(s, i, bs, be) ==
    [i |-> i, bs |-> bs, be |-> be, after |-> At(s, be + 1, "coordinate"),
     e |-> IF At(s, be + 1, "coordinate") THEN be + 1 ELSE be]

RECURSIVE connector_value_matches(_, _)
connector_value_matches(s, i) ==
    IF i > Len(s) THEN <<>>
    ELSE IF /\ At(s, i, "coordinate")
            /\ At(s, RunEnd(s, i + 1, "value") + 1, "connector")
            /\ At(s, RunEnd(s, i + 1, "value") + 2, "value")
    THEN <<connector_value_match(
               s, i, RunEnd(s, i + 1, "value") + 1,
               BuddiesEnd(s, RunEnd(s, i + 1, "value") + 1))>>
         \o connector_value_matches(
               s, connector_value_match(
                      s, i, RunEnd(s, i + 1, "value") + 1,
                      BuddiesEnd(s, RunEnd(s, i + 1, "value") + 1)).e + 1)
    ELSE connector_value_matches(s, i + 1)

\* for con in range(end - 1, start - 1, -1)
RECURSIVE connector_value_loop(_, _, _, _)
connector_value_loop(s, leader, con, bs) ==
    IF con < bs THEN Ok(s)
    ELSE IF s[con].group # "connector"
    THEN connector_value_loop(s, leader, con - 1, bs)
    ELSE IF s[con].tag \notin {"RC", "COM", "AND", "OTHERX", "LF"}
    THEN Raise("AssertionError", s)
    ELSE IF ~IsCoordinate(leader) THEN Raise("AttributeError", s)
    ELSE IF ~compatible(s[con + 1].tag, leader.value.tag)
    THEN connector_value_loop(s, leader, con - 1, bs)
    ELSE connector_value_loop(
             Replace(s, con + 1,
                     CoordinateOf(leader.axis, AsTok(s[con + 1]), NoLevel)),
             leader, con - 1, bs)

\* self[i - 1], which for the first index is the last item
Before(s, i) == IF i = 1 THEN s[Len(s)] ELSE s[i - 1]

connector_value_effect(s, m) ==
    connector_value_loop(
        s,
        IF m.after /\ s[m.be + 1].axis.tag = s[m.i].axis.tag
        THEN Before(s, m.i) ELSE s[m.i],
        m.be, m.bs)

\* value_n: (?P<leader>coordinate)value+
RECURSIVE value_n_matches(_, _)
value_n_matches(s, i) ==
    IF i > Len(s) THEN <<>>
    ELSE IF At(s, i, "coordinate") /\ At(s, i + 1, "value")
    THEN <<[i |-> i, e |-> RunEnd(s, i + 1, "value")]>>
         \o value_n_matches(s, RunEnd(s, i + 1, "value") + 1)
    ELSE value_n_matches(s, i + 1)

RECURSIVE value_n_loop(_, _, _, _)
value_n_loop(s, leader, index, e) ==
    IF index > e THEN Ok(s)
    ELSE IF level(leader) = -1 THEN Raise("KeyError", s)
    ELSE value_n_loop(
             Replace(s, index,
                     CoordinateOf(anonymous_axis(s[index].start, ""),
                                  AsTok(s[index]), level(leader) + 1)),
             CoordinateOf(anonymous_axis(s[index].start, ""),
                          AsTok(s[index]), level(leader) + 1),
             index + 1, e)

value_n_effect(s, m) == value_n_loop(s, s[m.i], m.i + 1, m.e)

\* coordinate_connector_value: coordinate(connector:value)+
RECURSIVE PairsEnd(_, _)
PairsEnd(s, i) ==
    IF At(s, i + 1, "connector") /\ At(s, i + 2, "value")
    THEN PairsEnd(s, i + 2) ELSE i

RECURSIVE coordinate_connector_value_matches(_, _)
coordinate_connector_value_matches(s, i) ==
    IF i > Len(s) THEN <<>>
    ELSE IF At(s, i, "coordinate") /\ PairsEnd(s, i) > i
    THEN <<[i |-> i, e |-> PairsEnd(s, i)]>>
         \o coordinate_connector_value_matches(s, PairsEnd(s, i) + 1)
    ELSE coordinate_connector_value_matches(s, i + 1)

\* The pairs from the one whose connector is at con on
RECURSIVE coordinate_connector_value_loop(_, _, _, _)
coordinate_connector_value_loop(s, coordinate, con, e) ==
    IF con > e THEN Ok(s)
    ELSE IF s[con].tag \notin {"RC", "AND", "OTHERX", "COM"} THEN Ok(s)
    ELSE IF ~compatible(coordinate.value.tag, s[con + 1].tag)
    THEN Raise("AssertionError", s)
    ELSE IF level(coordinate) = -1 THEN Raise("KeyError", s)
    ELSE coordinate_connector_value_loop(
             Replace(s, con + 1,
                     CoordinateOf(coordinate.axis, AsTok(s[con + 1]),
                                  level(coordinate))),
             coordinate, con + 2, e)

coordinate_connector_value_effect(s, m) ==
    coordinate_connector_value_loop(s, s[m.i], m.i + 1, m.e)

\* orphan_annex: (?<![XPREVX:SRNK])ANX(?!Group.value)
RECURSIVE orphan_annex_matches(_, _)
orphan_annex_matches(s, i) ==
    IF i > Len(s) THEN <<>>
    ELSE (IF /\ TagAt(s, i, {"ANX"}) /\ ~TagAt(s, i - 1, {"XPREVX", "SRNK"})
             /\ ~At(s, i + 1, "value")
          THEN <<[i |-> i, e |-> i]>> ELSE <<>>)
         \o orphan_annex_matches(s, i + 1)

orphan_annex_effect(s, m) ==
    Ok(Replace(s, m.i, CoordinateOf(AsTok(s[m.i]),
                                    quasi_value("ANX", s[m.i]), NoLevel)))

\* The patterns of the battery, in the order of _coordination
pattern_keys ==
    <<"generic_context", "fourth_directive", "spoken_latin", "spoken_rank",
      "coordinates", "re_reference", "range_connected", "connector_value",
      "value_n", "coordinate_connector_value", "orphan_annex">>

\* self.tp.finditer(key, self.values) and self.gp.finditer(key, self.groups)
finditer(key, s) ==
    CASE key = "generic_context" -> generic_context_matches(s, 1)
      [] key = "fourth_directive" -> fourth_directive_matches(s, 1)
      [] key = "spoken_latin" -> spoken_latin_matches(s, 1)
      [] key = "spoken_rank" -> spoken_rank_matches(s, 1)
      [] key = "coordinates" -> coordinates_matches(s, 1)
      [] key = "re_reference" -> re_reference_matches(s, 1)
      [] key = "range_connected" -> range_connected_matches(s, 1)
      [] key = "connector_value" -> connector_value_matches(s, 1)
      [] key = "value_n" -> value_n_matches(s, 1)
      [] key = "coordinate_connector_value" ->
             coordinate_connector_value_matches(s, 1)
      [] key = "orphan_annex" -> orphan_annex_matches(s, 1)

\* The body of the loop of the handler of the pattern, for the match m
handle_match(key, s, m) ==
    CASE key = "generic_context" -> generic_context_effect(s, m)
      [] key = "fourth_directive" -> fourth_directive_effect(s, m)
      [] key = "spoken_latin" -> spoken_latin_effect(s, m)
      [] key = "spoken_rank" -> spoken_rank_effect(s, m)
      [] key = "coordinates" -> coordinates_effect(s, m)
      [] key = "re_reference" -> re_reference_effect(s, m)
      [] key = "range_connected" -> range_connected_effect(s, m)
      [] key = "connector_value" -> connector_value_effect(s, m)
      [] key = "value_n" -> value_n_effect(s, m)
      [] key = "coordinate_connector_value" ->
             coordinate_connector_value_effect(s, m)
      [] key = "orphan_annex" -> orphan_annex_effect(s, m)

\* Handles the matches ms[1..k] from the last one down, as long as no
\* exception is raised.
RECURSIVE ForMatches(_, _, _, _)
ForMatches(key, r, ms, k) ==
    IF k = 0 \/ r.exc # "ok" THEN r
    ELSE ForMatches(key, handle_match(key, r.list, ms[k]), ms, k - 1)

\* getattr(self, f"_handle_pattern_{pattern_key}")()
_handle_pattern(key, s) ==
    ForMatches(key, Ok(s), finditer(key, s), Len(finditer(key, s)))

\* TokenSequence.coordinated
coordinated(s) ==
    \A i \in 1..Len(s) : s[i].group \in {"coordinate", "connector"}

\* The loop of _coordination from the k-th pattern on
RECURSIVE _coordination_from(_, _)
_coordination_from(s, k) ==
    IF k > Len(pattern_keys) THEN Ok(s)
    ELSE IF _handle_pattern(pattern_keys[k], s).exc # "ok"
            \/ coordinated(_handle_pattern(pattern_keys[k], s).list)
    THEN _handle_pattern(pattern_keys[k], s)
    ELSE _coordination_from(_handle_pattern(pattern_keys[k], s).list, k + 1)

\* TokenSequence._coordination()
_coordination(s) == _coordination_from(s, 1)

(***************************************************************************)
(* token_sequences.py and structures.py: nesting.  The tree of a sequence  *)
(* is the function par from the indices of its items to the index of the  *)
(* parent, 0 for a node without parent.  A step returns the exception it   *)
(* raised, the tree it left and whether it had an effect.                  *)
(***************************************************************************)
Nested(e, par, effect) == [exc |-> e, par |-> par, effect |-> effect]

\* ReferenceToken.__eq__: same span and same tag
TokEq(a, b) ==
    a.start = b.start /\ a.end = b.end /\ a.group = b.group /\ a.tag = b.tag

children(par, i) == {j \in DOMAIN par : par[j] = i}

\* node.path: the node and its ancestors
RECURSIVE PathOf(_, _)
PathOf(par, i) == IF i = 0 THEN {} ELSE {i} \cup PathOf(par, par[i])

\* NodeMixin.parent = p: a LoopError if node is p or an ancestor of p
SetParent(par, node, p) ==
    IF par[node] = p THEN Nested("ok", par, TRUE)
    ELSE IF node \in PathOf(par, p) THEN Nested("LoopError", par, TRUE)
    ELSE Nested("ok", [par EXCEPT ![node] = p], TRUE)

\* SyntaxNode.append(node), self and node being indices of coordinates of s
RECURSIVE append(_, _, _, _)
append(s, par, self, node) ==
    IF level(s[node]) = -1 \/ level(s[self]) = -1
    THEN Nested("KeyError", par, TRUE)
    ELSE IF ~(level(s[node]) > level(s[self]))
    THEN Nested("AssertionError", par, TRUE)
    ELSE IF children(par, self) = {} THEN SetParent(par, node, self)
    ELSE IF Cardinality(children(par, self)) = 1
    THEN LET child == CHOOSE c \in children(par, self) : TRUE
         IN  IF level(s[child]) = -1 THEN Nested("KeyError", par, TRUE)
             ELSE IF level(s[child]) < level(s[node])
             THEN append(s, par, child, node)
             ELSE IF level(s[child]) = level(s[node])
             THEN SetParent(par, node, self)
             ELSE Nested("NestingError", par, TRUE)
    ELSE IF {level(s[c]) : c \in children(par, self)} = {level(s[node])}
    THEN SetParent(par, node, self)
    ELSE Nested("RuntimeError", par, TRUE)

\* One pass of the loop of nest_neighbours, for the coordinate at c
nest_neighbour(s, par, precursor, c) ==
    IF ~IsCoordinate(s[precursor]) THEN Nested("AttributeError", par, FALSE)
    ELSE IF level(s[precursor]) = -1 \/ level(s[c]) = -1
    THEN Nested("KeyError", par, FALSE)
    ELSE IF level(s[precursor]) < level(s[c])
    THEN append(s, par, precursor, c)
    ELSE IF /\ level(s[c]) < level(s[precursor])
            /\ par[precursor] = 0
            /\ Axis_compatible(s[c].axis.tag, s[precursor].axis.tag)
    THEN append(s, par, c, precursor)
    ELSE Nested("ok", par, FALSE)

\* The precursor after this pass
next_precursor(s, par, precursor, c) ==
    IF level(s[precursor]) < level(s[c]) THEN c
    ELSE IF /\ level(s[c]) < level(s[precursor])
            /\ par[precursor] = 0
            /\ Axis_compatible(s[c].axis.tag, s[precursor].axis.tag)
    THEN precursor
    ELSE c

\* nest_neighbours(precursor, iterator): the iterator yields the
\* coordinates among the items k..e, with roots only those that have no
\* parent when their turn comes (iter_roots).
RECURSIVE nest_neighbours(_, _, _, _, _, _)
nest_neighbours(s, n, precursor, k, e, roots) ==
    IF k > e \/ n.exc # "ok" THEN n
    ELSE IF ~IsCoordinate(s[k]) \/ (roots /\ n.par[k] # 0)
    THEN nest_neighbours(s, n, precursor, k + 1, e, roots)
    ELSE nest_neighbours(
             s,
             Nested(nest_neighbour(s, n.par, precursor, k).exc,
                    nest_neighbour(s, n.par, precursor, k).par,
                    n.effect \/ nest_neighbour(s, n.par, precursor, k).effect),
             IF IsCoordinate(s[precursor])
             THEN next_precursor(s, n.par, precursor, k) ELSE precursor,
             k + 1, e, roots)

\* adjacent_coordinates: coordinate+
RECURSIVE adjacent_coordinates_matches(_, _)
adjacent_coordinates_matches(s, i) ==
    IF i > Len(s) THEN <<>>
    ELSE IF At(s, i, "coordinate")
    THEN <<[i |-> i, e |-> RunEnd(s, i, "coordinate")]>>
         \o adjacent_coordinates_matches(s, RunEnd(s, i, "coordinate") + 1)
    ELSE adjacent_coordinates_matches(s, i + 1)

\* _nest_adjacent(), the matches ms[1..k] from the last one down
RECURSIVE _nest_adjacent_from(_, _, _, _)
_nest_adjacent_from(s, n, ms, k) ==
    IF k = 0 \/ n.exc # "ok" THEN n
    ELSE _nest_adjacent_from(
             s, nest_neighbours(s, n, ms[k].i, ms[k].i + 1, ms[k].e, FALSE),
             ms, k - 1)

_nest_adjacent(s, n) ==
    _nest_adjacent_from(s, n, adjacent_coordinates_matches(s, 1),
                        Len(adjacent_coordinates_matches(s, 1)))

\* _iter_siblings(leader): the coordinates with the leader's axis token and
\* another value token
IsSibling(s, leader, j) ==
    /\ IsCoordinate(s[j])
    /\ TokEq(s[j].axis, s[leader].axis)
    /\ ~TokEq(s[j].value, s[leader].value)

\* The second loop of _nest_siblings over the siblings from j on
RECURSIVE adopt_siblings(_, _, _, _, _)
adopt_siblings(s, n, leader, parent, j) ==
    IF j > Len(s) \/ n.exc # "ok" THEN n
    ELSE IF IsSibling(s, leader, j) /\ n.par[j] = 0
    THEN adopt_siblings(
             s, Nested(SetParent(n.par, j, parent).exc,
                       SetParent(n.par, j, parent).par, TRUE),
             leader, parent, j + 1)
    ELSE adopt_siblings(s, n, leader, parent, j + 1)

\* The siblings of the coordinate at c that have a parent
SiblingsWithParent(s, par, c) ==
    {j \in 1..Len(s) : IsSibling(s, c, j) /\ par[j] # 0}

FirstOf(S) == CHOOSE i \in S : \A j \in S : i <= j

\* _nest_siblings(), the coordinates from c on
RECURSIVE _nest_siblings_from(_, _, _)
_nest_siblings_from(s, n, c) ==
    IF c > Len(s) \/ n.exc # "ok" THEN n
    ELSE IF ~IsCoordinate(s[c]) THEN _nest_siblings_from(s, n, c + 1)
    ELSE IF n.par[c] # 0
    THEN _nest_siblings_from(s, adopt_siblings(s, n, c, n.par[c], 1), c + 1)
    ELSE IF SiblingsWithParent(s, n.par, c) = {}
    THEN _nest_siblings_from(s, n, c + 1)
    ELSE LET parent == n.par[FirstOf(SiblingsWithParent(s, n.par, c))]
             set == SetParent(n.par, c, parent)
         IN  _nest_siblings_from(
                 s,
                 IF set.exc # "ok" THEN Nested(set.exc, set.par, TRUE)
                 ELSE adopt_siblings(s, Nested("ok", set.par, TRUE), c,
                                     parent, 1),
                 c + 1)

\* _nest_siblings(): effect tells whether it had one
_nest_siblings(s, par) == _nest_siblings_from(s, Nested("ok", par, FALSE), 1)

\* One pass of the body of _nest_rest
nest_rest_pass(s, par) ==
    IF _nest_siblings(s, par).exc # "ok" THEN _nest_siblings(s, par)
    ELSE nest_neighbours(s, _nest_siblings(s, par), 1, 1, Len(s), TRUE)

\* repeat_until_true(4)
NEST_REST_LIMIT == 4

RECURSIVE _nest_rest_from(_, _, _)
_nest_rest_from(s, par, k) ==
    IF k = 0 THEN Nested("ok", par, FALSE)
    ELSE IF nest_rest_pass(s, par).exc # "ok" \/ ~nest_rest_pass(s, par).effect
    THEN nest_rest_pass(s, par)
    ELSE _nest_rest_from(s, nest_rest_pass(s, par).par, k - 1)

_nest_rest(s, par) == _nest_rest_from(s, par, NEST_REST_LIMIT)

\* co_desu_co: coordinate XDESUX coordinate; co_underthe_co: coordinate
\* SPPLCR coordinate
RECURSIVE co_link_co_matches(_, _, _)
co_link_co_matches(s, i, tag) ==
    IF i > Len(s) THEN <<>>
    ELSE IF /\ At(s, i, "coordinate") /\ TagAt(s, i + 1, {tag})
            /\ At(s, i + 2, "coordinate")
    THEN <<[i |-> i, e |-> i + 2]>> \o co_link_co_matches(s, i + 3, tag)
    ELSE co_link_co_matches(s, i + 1, tag)

\* The inner loop of _nest_desu: the items j, j - 1, ... before the match
RECURSIVE desu_parents(_, _, _, _)
desu_parents(s, n, su, j) ==
    IF j = 0 \/ n.exc # "ok" THEN n
    ELSE IF ~IsCoordinate(s[j]) THEN desu_parents(s, n, su, j - 1)
    ELSE IF level(s[j]) = -1 THEN Nested("KeyError", n.par, TRUE)
    ELSE IF level(s[j]) < level(s[su])
    THEN desu_parents(s, append(s, n.par, j, su), su, j - 1)
    ELSE desu_parents(s, n, su, j - 1)

\* The body of the loop of _nest_desu for the match at i
nest_desu_effect(s, n, i) ==
    IF level(s[i + 2]) = -1 THEN Nested("KeyError", n.par, TRUE)
    ELSE IF desu_parents(s, n, i + 2, i - 1).exc # "ok"
    THEN desu_parents(s, n, i + 2, i - 1)
    ELSE append(s, desu_parents(s, n, i + 2, i - 1).par, i + 2, i)

\* The second loop of _nest_co_underthe_co over the siblings from j on
RECURSIVE underthe_siblings(_, _, _, _, _)
underthe_siblings(s, n, i, leader, j) ==
    IF j > Len(s) \/ n.exc # "ok" THEN n
    ELSE IF IsSibling(s, leader, j)
    THEN underthe_siblings(s, append(s, n.par, i, j), i, leader, j + 1)
    ELSE underthe_siblings(s, n, i, leader, j + 1)

\* The body of the loop of _nest_co_underthe_co for the match at i
nest_co_underthe_co_effect(s, n, i) ==
    underthe_siblings(s, append(s, n.par, i, i + 2), i, i + 2, 1)

\* comma_stairway: (coordinate COM)+ coordinate
RECURSIVE StairEnd(_, _)
StairEnd(s, i) ==
    IF TagAt(s, i + 1, {"COM"}) /\ At(s, i + 2, "coordinate")
    THEN StairEnd(s, i + 2) ELSE i

RECURSIVE comma_stairway_matches(_, _)
comma_stairway_matches(s, i) ==
    IF i > Len(s) THEN <<>>
    ELSE IF At(s, i, "coordinate") /\ StairEnd(s, i) > i
    THEN <<[i |-> i, e |-> StairEnd(s, i)]>>
         \o comma_stairway_matches(s, StairEnd(s, i) + 1)
    ELSE comma_stairway_matches(s, i + 1)

\* The inner loop of _nest_comma_stairways: j, j + 2, ... up to e
RECURSIVE stairway(_, _, _, _, _)
stairway(s, n, parent, j, e) ==
    IF j > e \/ n.exc # "ok" THEN n
    ELSE IF level(s[parent]) = -1 \/ level(s[j]) = -1
    THEN Nested("KeyError", n.par, TRUE)
    ELSE IF level(s[parent]) >= level(s[j]) THEN n
    ELSE stairway(s, append(s, n.par, parent, j), j, j + 2, e)

\* _nest_comma_stairways(): the matches from the k-th on; a match that ends
\* the sequence ends the loop.
RECURSIVE _nest_comma_stairways_from(_, _, _, _)
_nest_comma_stairways_from(s, n, ms, k) ==
    IF k > Len(ms) \/ n.exc # "ok" THEN n
    ELSE IF Len(s) = ms[k].e THEN n
    ELSE _nest_comma_stairways_from(
             s, stairway(s, n, ms[k].i, ms[k].i + 2, ms[k].e), ms, k + 1)

_nest_comma_stairways(s, n) ==
    _nest_comma_stairways_from(s, n, comma_stairway_matches(s, 1), 1)

\* left_of_right: coordinate+ [SPCLPR:XDESUX] coordinate, no coordinate
\* after it; e is the index of the last item, the subs are i..e - 2.
RECURSIVE left_of_right_matches(_, _)
left_of_right_matches(s, i) ==
    IF i > Len(s) THEN <<>>
    ELSE IF /\ At(s, i, "coordinate")
            /\ TagAt(s, RunEnd(s, i, "coordinate") + 1, {"SPCLPR", "XDESUX"})
            /\ At(s, RunEnd(s, i, "coordinate") + 2, "coordinate")
            /\ ~At(s, RunEnd(s, i, "coordinate") + 3, "coordinate")
    THEN <<[i |-> i, e |-> RunEnd(s, i, "coordinate") + 2]>>
         \o left_of_right_matches(s, RunEnd(s, i, "coordinate") + 3)
    ELSE left_of_right_matches(s, i + 1)

\* child.ancestors
Ancestors(par, i) == PathOf(par, par[i])

\* The child the match m of left_of_right moves: 0 for the AssertionError
left_of_right_child(par, m) ==
    IF m.e - 2 = m.i THEN m.i
    ELSE IF (m.e - 2) \in Ancestors(par, m.i) THEN m.e - 2
    ELSE IF m.i \in Ancestors(par, m.e - 2) THEN m.i
    ELSE 0

\* The body of the loop of _nest_left_of_right for the match m, the child
\* being known
left_of_right_move(s, n, child, new_parent) ==
    IF child = 0 THEN Nested("AssertionError", n.par, TRUE)
    ELSE IF /\ n.par[child] # 0
            /\ s[n.par[child]].axis.tag # s[new_parent].axis.tag
    THEN n
    ELSE Nested(SetParent(n.par, child, new_parent).exc,
                SetParent(n.par, child, new_parent).par, n.effect)

nest_left_of_right_effect(s, n, m) ==
    left_of_right_move(s, n, left_of_right_child(n.par, m), m.e)

\* The loops of _nest_desu, _nest_co_underthe_co and _nest_left_of_right
\* over the matches ms, from the k-th in the direction dir
RECURSIVE nest_for_matches(_, _, _, _, _, _)
nest_for_matches(key, s, n, ms, k, dir) ==
    IF k < 1 \/ k > Len(ms) \/ n.exc # "ok" THEN n
    ELSE nest_for_matches(
             key, s,
             CASE key = "co_desu_co" -> nest_desu_effect(s, n, ms[k].i)
               [] key = "co_underthe_co" ->
                      nest_co_underthe_co_effect(s, n, ms[k].i)
               [] key = "left_of_right" ->
                      nest_left_of_right_effect(s, n, ms[k]),
             ms, k + dir, dir)

_nest_desu(s, n) ==
    nest_for_matches("co_desu_co", s, n, co_link_co_matches(s, 1, "XDESUX"),
                     Len(co_link_co_matches(s, 1, "XDESUX")), -1)

_nest_co_underthe_co(s, n) ==
    nest_for_matches("co_underthe_co", s, n,
                     co_link_co_matches(s, 1, "SPPLCR"), 1, 1)

_nest_left_of_right(s, n) ==
    nest_for_matches("left_of_right", s, n, left_of_right_matches(s, 1),
                     Len(left_of_right_matches(s, 1)), -1)

\* co_and_co: ^coordinate AND coordinate$
co_and_co(s) ==
    /\ Len(s) = 3
    /\ At(s, 1, "coordinate") /\ TagAt(s, 2, {"AND"}) /\ At(s, 3, "coordinate")

\* The steps of _nesting in their order; each goes on from the tree the
\* one before left, and an exception ends them.
nesting_steps ==
    <<"adjacent", "desu", "co_underthe_co", "siblings", "comma_stairways",
      "left_of_right", "rest">>

nesting_step(key, s, n) ==
    CASE key = "adjacent" -> _nest_adjacent(s, n)
      [] key = "desu" -> _nest_desu(s, n)
      [] key = "co_underthe_co" -> _nest_co_underthe_co(s, n)
      [] key = "siblings" -> _nest_siblings(s, n.par)
      [] key = "comma_stairways" -> _nest_comma_stairways(s, n)
      [] key = "left_of_right" -> _nest_left_of_right(s, n)
      [] key = "rest" -> _nest_rest(s, n.par)

RECURSIVE _nesting_from(_, _, _)
_nesting_from(s, n, k) ==
    IF k > Len(nesting_steps) \/ n.exc # "ok" THEN n
    ELSE _nesting_from(s, nesting_step(nesting_steps[k], s, n), k + 1)

NoParents(s) == [i \in 1..Len(s) |-> 0]

\* TokenSequence._nesting()
_nesting(s) ==
    IF Len(s) = 1 \/ co_and_co(s) THEN Nested("ok", NoParents(s), FALSE)
    ELSE _nesting_from(s, Nested("ok", NoParents(s), FALSE), 1)

\* TokenSequence.finalize(): the exception raised, the list left and the
\* tree over it
Finalized(e, list, par) == [exc |-> e, list |-> list, par |-> par]

finalize_coordinated(c) ==
    IF c.exc # "ok" \/ c.list = <<>>
    THEN Finalized(c.exc, c.list, NoParents(c.list))
    ELSE Finalized(_nesting(c.list).exc, c.list, _nesting(c.list).par)

finalize(s) == finalize_coordinated(_coordination(_cleanup(s)))

(***************************************************************************)
(* The inputs of the model.  A coordinate is given by its root-to-node     *)
(* path in the syntax tree of its sequence; the paths offered are those on *)
(* which the level grows from parent to child.                             *)
(***************************************************************************)
nPND == Node(GroupNamedEntity, "PND_TITLE",
             "Treaty establishing the European Economic Community", 10)
nTRTprev == Node("TRT", "XPREVX", "the", tag_2_level["TRT"])
nTHEREOF == Node(GroupConnector, "THEREOF", "thereof", 10)
nTHIS == Node("REG", "XTHISX", "this", tag_2_level["REG"])
nPRT == Node("PRT", "NM", "1", tag_2_level["PRT"])
nTIT == Node("TIT", "ROM_U", "I", tag_2_level["TIT"])
nART == Node("ART", "NM", "5", tag_2_level["ART"])
nPG == Node("PG", "NM", "2", tag_2_level["PG"])
nSNT == Node("SNT", "NM", "3", tag_2_level["SNT"])

\* The coordinates of the texts.  Under the profile "memory" the texts hold
\* back-references and what they may refer to, and the Reflector has no
\* context; under the profile "context" the texts hold no back-reference
\* and the Reflector has one of Configs.
Coordinates(p) ==
    IF p = "memory"
    THEN {<<nPND>>, <<nPRT>>, <<nART>>, <<nTHEREOF>>, <<nPND, nART>>,
          <<nPRT, nART>>, <<nTRTprev, nART>>, <<nTHEREOF, nART>>,
          <<nTHEREOF, nPRT>>}
    ELSE {<<nTHIS>>, <<nPRT>>, <<nTIT>>, <<nART>>, <<nPG>>, <<nPRT, nART>>,
          <<nART, nPG>>, <<nART, nSNT>>}

\* The constructor arguments of the Reflector: container_context,
\* document_context, min_role.
DefaultConfig == [container |-> <<>>, document |-> NoDocument, min_role |-> "token"]

docTEU == StdCoordinate("PND", "TEEC", "document")

Configs ==
    {[container |-> <<StdCoordinate("PRT", "1", "container"),
                      StdCoordinate("TIT", "V", "container")>>,
      document |-> NoDocument, min_role |-> "token"],
     [container |-> <<StdCoordinate("PRT", "1", "container")>>,
      document |-> docTEU, min_role |-> "document"]}

\* Bounds of the model: coordinates processed in a behaviour, texts of one
\* call, calls of the orchestrator.
MaxCoordinates == 3
MaxTexts == 2
MaxCalls == 2

(***************************************************************************)
(* reflector.py: the orchestrator, and the state of the TokenSequences     *)
(* object whose references it is collecting                                *)
(***************************************************************************)
MEM_SIZE == 5
\* TokenSequences.__init__: self.recent = Cycle(4) when no recents are given
DEFAULT_CYCLE == 4

VARIABLES
    profile,       \* which coordinates the texts are made of
    cfg,           \* Reflector: container, document, min_role
    memory,        \* Reflector.memory
    problematics,  \* Reflector.problematics (texts are numbered)
    pc,            \* "idle", "call" (between texts), "text" (between
                   \* sequences of a text), "seq" (inside a sequence)
    callKind,      \* the type of the input of __call__
    remember,      \* the argument remember of _get_annotations
    recent,        \* TokenSequences.recent when it is not the memory
    deepest,       \* iter_references: deepest
    errors,        \* TokenSequences.errors
    refs,          \* the references emitted for the current text
    aborted,       \* the loop over the coordinates of the sequence was left
    textNo,        \* position of the current text in the input of the call
    textId,        \* number of the current text
    callNo,        \* number of the current call
    seqLen,        \* coordinates of the current sequence consumed so far
    budget,        \* coordinates still to come in this behaviour
    last,          \* what the last pass of the loop body did
    raised,        \* the exceptions raised while processing this text
    turnedInCall,  \* the targets turned into a cycle during this call
    leftover       \* memory as the previous calls left it

refl_vars ==
    <<profile, cfg, memory, problematics, pc, callKind, remember, recent,
      deepest, errors, refs, aborted, textNo, textId, callNo, seqLen,
      budget, last, raised, turnedInCall, leftover>>

VARIABLES
    sequences,     \* TokenSequences: the sequences it holds
    fk,            \* __init__: index of the sequence to finalize next, 0
                   \* when the loop is over, -1 outside of __init__
    ferrors,       \* TokenSequences.errors after _extract and finalize
    fexc           \* what the last finalize raised

fin_vars == <<sequences, fk, ferrors, fexc>>

VARIABLES
    text,          \* _extract: the set of the positions of self.text that
                   \* hold white space; the text has TextLen characters
    found,         \* the result of _find_tokens
    sorted_refs,   \* refs
    extracted,     \* self, the list of the token sequences
    ek,            \* index in refs of the next r
    epc,           \* "idle", "find", "loop", "prune", "done" or the exception
    skipped        \* number of the refs the loop passed over

ext_vars == <<text, found, sorted_refs, extracted, ek, epc, skipped>>

VARIABLES
    cycle,         \* a Cycle
    length,        \* Cycle.length
    turns          \* number of calls of turn so far

cyc_vars == <<cycle, length, turns>>

VARIABLES
    enc_axis,      \* celexer.cases[axis_tag](value): axis_tag
    enc_ordinate,  \* and value
    enc_stack,     \* the active frames of the two handlers, innermost last
    enc_pc,        \* "idle", "call", "return", "raise", "done" or "raised"
    enc_callee,    \* the handler that is being called when enc_pc = "call"
    enc_value,     \* what is being returned
    enc_exc,       \* what is being raised
    recursion_depth, \* _celex_getter_reg.recursion_depth
    hops           \* how often one handler's body was entered from the other

enc_vars ==
    <<enc_axis, enc_ordinate, enc_stack, enc_pc, enc_callee, enc_value,
      enc_exc, recursion_depth, hops>>

VARIABLES
    _inverse,          \* celexer._inverse: entries (celex, language) ->
                       \* (axis_tag, value)
    convert_cache,     \* the lru_cache of CelexHandler.convert
    fall_back_cache,   \* of CelexHandler._fall_back_inversion
    get_spoken_cache,  \* of StdCoordinate.get_spoken
    standardize_cache, \* of _standardize
    encoded,           \* the triples convert has encoded since the last reset
    cod_last,          \* the last call of the codec and what it gave
    cod_calls          \* number of the calls so far

cod_vars ==
    <<_inverse, convert_cache, fall_back_cache, get_spoken_cache,
      standardize_cache, encoded, cod_last, cod_calls>>

celex_vars == <<enc_vars, cod_vars>>

VARIABLES
    tg_self,       \* a Target, as the calls made on it have left it
    tg_args,       \* the other arguments of the calls
    tg_href,       \* what get_href returned
    tg_out,        \* what the last call returned or raised
    tg_pc          \* "idle", "start", the calls done so far, or "done"

tg_vars == <<tg_self, tg_args, tg_href, tg_out, tg_pc>>

VARIABLES
    annotations,   \* the references of one string, as _unclose gets them
    unclosed,      \* and as it leaves them
    unc_pc         \* "idle", "start" or "done"

unc_vars == <<annotations, unclosed, unc_pc>>

VARIABLES
    mm_string,     \* the coordinates of the string, in the order of the text
    mm_memory,     \* the memory the second run starts with
    mm_runs        \* the two runs of iter_references over the string

mm_vars == <<mm_string, mm_memory, mm_runs>>

VARIABLES
    lr_limit,      \* the limit the function was wrapped with
    lr_n,          \* the argument of the call in progress
    lr_frames,     \* the arguments of the activations of f, innermost last
    recursion_depth_f,  \* f.recursion_depth
    lr_pc,         \* "idle", "call", "body", "return", "raise", "done", "raised"
    lr_result,     \* the value being returned
    lr_deepest,    \* the deepest nesting the call in progress reached
    lr_calls,      \* the top-level calls made so far
    lr_raised      \* whether an earlier top-level call raised

lr_vars == <<lr_limit, lr_n, lr_frames, recursion_depth_f, lr_pc, lr_result,
             lr_deepest, lr_calls, lr_raised>>

VARIABLES
    vm_string,      \* before_text, as its characters
    vm_references,  \* the spans of the references
    vm_nested,      \* attrib_name = 'text' and descendant.tag = tag
    vm_self,        \* the VirtualMarkup: text_span and the markers attached
    vm_pc,          \* "start", "attach", "raised" or "done"
    vm_out          \* what the element holds in the end

vm_vars == <<vm_string, vm_references, vm_nested, vm_self, vm_pc, vm_out>>

VARIABLES
    sq_input,      \* a token sequence as _extract left it
    sq_self,       \* the sequence as the operation has left it so far
    sq_count,      \* the passes made
    sq_pc,         \* "cleanup", "stopped", "exhausted", "handle", "handled"
    sq_exc,        \* the exception raised, "ok" when none
    sq_par         \* the parent of each item, 0 for none

sq_vars == <<sq_input, sq_self, sq_count, sq_pc, sq_exc, sq_par>>

VARIABLES
    am_inputs,     \* the strings of the input of __call__, in the order
                   \* _get_annotations_map goes through them
    am_kind,       \* the type of the input: "list" or "element"
    am_mode,       \* Reflector.mode
    am_memory,     \* Reflector.memory
    am_remember,   \* the argument remember of _get_annotations
    am_problematics,  \* Reflector.problematics
    am_map,        \* the dict being built, its items in insertion order
    am_own,        \* what _get_annotations returned for each position
    am_pc,         \* "call", "texts" or "done"
    am_out         \* what __call__ returns

am_vars == <<am_inputs, am_kind, am_mode, am_memory, am_remember,
             am_problematics, am_map, am_own, am_pc, am_out>>

late_vars == <<vm_vars, sq_vars, am_vars>>

aux_vars == <<unc_vars, mm_vars, lr_vars, late_vars>>

more_vars == <<celex_vars, tg_vars, aux_vars>>

vars == <<refl_vars, fin_vars, ext_vars, cyc_vars, more_vars>>

NoPass ==
    [exc |-> "ok", site |-> "none", clause |-> "none", target |-> <<>>,
     deepest |-> <<>>, joined |-> FALSE, other |-> <<>>, errs |-> 0]

FinIdle == sequences = <<>> /\ fk = -1 /\ ferrors = 0 /\ fexc = None

ExtIdle ==
    /\ text = {} /\ found = <<>> /\ sorted_refs = <<>> /\ extracted = <<>>
    /\ ek = 0 /\ epc = "idle" /\ skipped = 0

CycIdle == cycle = <<>> /\ length = 0 /\ turns = 0

NoParts == [first |-> -1, second |-> -1, chars |-> <<>>]
NoCallee == [fn |-> "none", inter |-> ""]

\* celex_handling.py as the import leaves it
EncIdle ==
    /\ enc_axis = None /\ enc_ordinate = None
    /\ enc_stack = <<>> /\ enc_pc = "idle"
    /\ enc_callee = NoCallee /\ enc_value = NoParts /\ enc_exc = None
    /\ recursion_depth = 0 /\ hops = 0

NoCall == [op |-> "none", celex |-> "", language |-> "", exc |-> "ok",
           answer |-> <<>>]

CodIdle ==
    /\ _inverse = {} /\ convert_cache = {} /\ fall_back_cache = {}
    /\ get_spoken_cache = {} /\ standardize_cache = {}
    /\ encoded = {} /\ cod_last = NoCall /\ cod_calls = 0

CelexIdle == EncIdle /\ CodIdle

NoArgs == [container |-> <<>>, document |-> <<>>, previous |-> <<>>]
NoOut == [exc |-> "ok", none |-> TRUE, target |-> <<>>]

TgIdle ==
    /\ tg_self = <<>> /\ tg_args = NoArgs /\ tg_href = <<>>
    /\ tg_out = NoOut /\ tg_pc = "idle"

UncIdle == annotations = <<>> /\ unclosed = <<>> /\ unc_pc = "idle"

MmIdle == mm_string = <<>> /\ mm_memory = <<>> /\ mm_runs = <<>>

LrIdle ==
    /\ lr_limit = 0 /\ lr_n = 0 /\ lr_frames = <<>> /\ recursion_depth_f = 0
    /\ lr_pc = "off" /\ lr_result = 0 /\ lr_deepest = 0 /\ lr_calls = 0
    /\ lr_raised = FALSE

NoMarkup == [text_span |-> [start |-> 0, end |-> 0], markers |-> <<>>]

NoElement == [text |-> <<>>, anchors |-> <<>>]

VmIdle ==
    /\ vm_string = <<>> /\ vm_references = <<>> /\ vm_nested = FALSE
    /\ vm_self = NoMarkup /\ vm_pc = "off" /\ vm_out = NoElement

SqIdle ==
    /\ sq_input = <<>> /\ sq_self = <<>> /\ sq_count = 0 /\ sq_pc = "off"
    /\ sq_exc = "ok" /\ sq_par = <<>>

AmIdle ==
    /\ am_inputs = <<>> /\ am_kind = None /\ am_mode = None
    /\ am_memory = <<>> /\ am_remember = FALSE /\ am_problematics = <<>>
    /\ am_map = <<>> /\ am_own = <<>> /\ am_pc = "off" /\ am_out = <<>>

LateIdle == VmIdle /\ SqIdle /\ AmIdle

AuxIdle == UncIdle /\ MmIdle /\ LrIdle /\ LateIdle

MoreIdle == CelexIdle /\ TgIdle /\ AuxIdle

ReflIdle ==
    /\ profile = None /\ cfg = DefaultConfig /\ memory = <<>>
    /\ problematics = <<>> /\ pc = "off" /\ callKind = None
    /\ remember = FALSE /\ recent = <<>> /\ deepest = <<>> /\ errors = 0
    /\ refs = <<>> /\ aborted = FALSE /\ textNo = 0 /\ textId = 0
    /\ callNo = 0 /\ seqLen = 0 /\ budget = 0 /\ last = NoPass
    /\ raised = {} /\ turnedInCall = <<>> /\ leftover = <<>>

ReflInit(p, configs, n) ==
    /\ profile = p
    /\ cfg \in configs
    /\ memory = <<>>
    /\ problematics = <<>>
    /\ pc = "idle"
    /\ callKind = None
    /\ remember = FALSE
    /\ recent = <<>>
    /\ deepest = <<>>
    /\ errors = 0
    /\ refs = <<>>
    /\ aborted = FALSE
    /\ textNo = 0
    /\ textId = 0
    /\ callNo = 0
    /\ seqLen = 0
    /\ budget = n
    /\ last = NoPass
    /\ raised = {}
    /\ turnedInCall = <<>>
    /\ leftover = <<>>
    /\ FinIdle /\ ExtIdle /\ CycIdle /\ MoreIdle

\* self.recent of the TokenSequences of the current text
Recent == IF remember THEN memory ELSE recent

\* A memory that no call resets.
memory_kept(kind, mem) == mem

\* Reflector._get_annotations_map: what becomes of self.memory when the
\* input is seen.  An element is passed on as the list of its strings with
\* remember=True, which resets the memory; a str and a list given to
\* __call__ come with remember=False.
memory_on_call(kind, mem) == IF kind = "elem" THEN <<>> ELSE mem

remember_on_call(kind) == kind = "elem"

\* Reflector.__call__(inputs), up to the first text
Call(kind) ==
    /\ pc = "idle"
    /\ callNo < MaxCalls
    /\ budget > 0
    /\ callNo' = callNo + 1
    /\ callKind' = kind
    /\ remember' = remember_on_call(kind)
    /\ leftover' = memory
    /\ memory' = memory_on_call(kind, memory)
    /\ turnedInCall' = <<>>
    /\ textNo' = 0
    /\ last' = NoPass
    /\ pc' = "call"
    /\ UNCHANGED <<profile, cfg, problematics, recent, deepest, errors, refs,
                   aborted, textId, seqLen, budget, raised>>
    /\ UNCHANGED <<fin_vars, ext_vars, cyc_vars, more_vars>>

\* Reflector._get_annotations(text, remember): TokenSequences(...) and the
\* start of iter_references
BeginText ==
    /\ pc = "call"
    /\ budget > 0
    /\ textNo < (IF callKind = "str" THEN 1 ELSE MaxTexts)
    /\ textNo' = textNo + 1
    /\ textId' = textId + 1
    /\ recent' = <<>>
    /\ errors' = 0
    /\ refs' = <<>>
    /\ raised' = {}
    /\ deepest' = <<>>
    /\ aborted' = FALSE
    /\ seqLen' = 0
    /\ last' = NoPass
    /\ pc' = "text"
    /\ UNCHANGED <<profile, cfg, memory, problematics, callKind, remember,
                   callNo, budget, turnedInCall, leftover>>
    /\ UNCHANGED <<fin_vars, ext_vars, cyc_vars, more_vars>>

\* for sequence in self: deepest = Target()
BeginSequence ==
    /\ pc = "text"
    /\ budget > 0
    /\ deepest' = <<>>
    /\ aborted' = FALSE
    /\ seqLen' = 0
    /\ pc' = "seq"
    /\ UNCHANGED <<profile, cfg, memory, problematics, callKind, remember,
                   recent, errors, refs, textNo, textId, callNo, budget, last,
                   raised, turnedInCall, leftover>>
    /\ UNCHANGED <<fin_vars, ext_vars, cyc_vars, more_vars>>

\* The cycle after the else clause of the try statement:
\* self.recent.turn(deepest)
turned(r) ==
    IF r.clause = "yield"
    THEN turn(Recent, IF remember THEN MEM_SIZE ELSE DEFAULT_CYCLE,
              r.deepest)
    ELSE Recent

\* The effect of a pass r of the loop body on the state
Passed(r) ==
    /\ deepest' = r.deepest
    /\ errors' = IF r.clause \in {"break", "count"}
                 THEN errors + 1 ELSE errors
    /\ aborted' = (r.clause = "break")
    /\ refs' = IF r.clause = "yield"
               THEN Append(refs, [target |-> r.target, joined |-> r.joined])
               ELSE refs
    /\ memory' = IF remember THEN turned(r) ELSE memory
    /\ recent' = IF remember THEN recent ELSE turned(r)
    /\ turnedInCall' =
           IF r.clause = "yield"
           THEN <<[target |-> r.deepest, textNo |-> textNo]>>
                \o turnedInCall
           ELSE turnedInCall
    /\ raised' = IF r.exc = "ok" THEN raised ELSE raised \cup {r.exc}
    /\ last' = [r EXCEPT !.deepest = <<>>] @@
               [errs |-> IF r.clause \in {"break", "count"} THEN 1 ELSE 0]

\* One pass of the loop over sequence.iter_coordinates()
Step(path) ==
    /\ pc = "seq"
    /\ ~aborted
    /\ budget > 0
    /\ Passed(iter_references_body(path, cfg.container, cfg.document,
                                   cfg.min_role, Recent, deepest))
    /\ seqLen' = seqLen + 1
    /\ budget' = budget - 1
    /\ UNCHANGED <<profile, cfg, problematics, pc, callKind, remember, textNo,
                   textId, callNo, leftover>>
    /\ UNCHANGED <<fin_vars, ext_vars, cyc_vars, more_vars>>

\* A coordinate of the sequence that follows the break: the loop is over,
\* the coordinate is not looked at.
Skip(path) ==
    /\ pc = "seq"
    /\ aborted
    /\ budget > 0
    /\ seqLen' = seqLen + 1
    /\ budget' = budget - 1
    /\ last' = [NoPass EXCEPT !.clause = "skipped"]
    /\ UNCHANGED <<profile, cfg, memory, problematics, pc, callKind, remember,
                   recent, deepest, errors, refs, aborted, textNo, textId,
                   callNo, raised, turnedInCall, leftover>>
    /\ UNCHANGED <<fin_vars, ext_vars, cyc_vars, more_vars>>

\* The sequence has no further coordinate.
EndSequence ==
    /\ pc = "seq"
    /\ seqLen > 0
    /\ pc' = "text"
    /\ UNCHANGED <<profile, cfg, memory, problematics, callKind, remember,
                   recent, deepest, errors, refs, aborted, textNo, textId,
                   callNo, seqLen, budget, last, raised, turnedInCall,
                   leftover>>
    /\ UNCHANGED <<fin_vars, ext_vars, cyc_vars, more_vars>>

\* The text has no further sequence: _get_annotations returns, after
\* noting the text as problematic if ts.errors is not 0.
EndText ==
    /\ pc = "text"
    /\ problematics' = IF errors # 0 THEN Append(problematics, textId)
                       ELSE problematics
    /\ pc' = "call"
    /\ UNCHANGED <<profile, cfg, memory, callKind, remember, recent, deepest,
                   errors, refs, aborted, textNo, textId, callNo, seqLen,
                   budget, last, raised, turnedInCall, leftover>>
    /\ UNCHANGED <<fin_vars, ext_vars, cyc_vars, more_vars>>

\* __call__ returns.
Return ==
    /\ pc = "call"
    /\ callKind = "str" => textNo = 1
    /\ pc' = "idle"
    /\ UNCHANGED <<profile, cfg, memory, problematics, callKind, remember,
                   recent, deepest, errors, refs, aborted, textNo, textId,
                   callNo, seqLen, budget, last, raised, turnedInCall,
                   leftover>>
    /\ UNCHANGED <<fin_vars, ext_vars, cyc_vars, more_vars>>

ReflNext ==
    \/ \E kind \in {"str", "list", "elem"} : Call(kind)
    \/ BeginText
    \/ BeginSequence
    \/ \E path \in Coordinates(profile) : Step(path)
    \/ \E path \in Coordinates(profile) : Skip(path)
    \/ EndSequence
    \/ EndText
    \/ Return

Init ==
    \/ ReflInit("memory", {DefaultConfig}, MaxCoordinates)
    \/ ReflInit("context", Configs, MaxCoordinates)
Next == ReflNext
Spec == Init /\ [][Next]_vars


(***************************************************************************)
(* token_sequences.py: TokenSequences.__init__, the loop that finalizes    *)
(* the sequences _extract has left.  The texts are taken by what _extract  *)
(* finds in them: one or two sequences of tokens, one character each, with *)
(* white space between the tokens of a sequence.                           *)
(***************************************************************************)
MaxTokens == 4

FinalizeTags == <<"ART", "PG", "NM", "AL_BB", "AND", "LF", "TEEC">>

\* Value.tag_2_group()
tag_2_group(t) ==
    IF t \in NamedEntityKeys THEN "named_entity"
    ELSE IF t \in ConnectorTags THEN "connector"
    ELSE IF t \in ValueTags THEN "value"
    ELSE "axis"

\* The sequence _extract builds of the tokens tagged tags[1], tags[2], ...
\* found from the position offset on
RawSequence(tags, offset) ==
    [i \in 1..Len(tags) |->
        Token(tag_2_group(tags[i]), tags[i], offset + i - 1, i < Len(tags))]

\* _extract keeps a sequence of one token only if the token is a named
\* entity or an ANX
Extractable(tags) ==
    Len(tags) = 1 => (tag_2_group(tags[1]) = "named_entity" \/ tags[1] = "ANX")

TagLists ==
    {t \in UNION {[1..n -> {FinalizeTags[k] : k \in 1..Len(FinalizeTags)}] :
                  n \in 1..MaxTokens} : Extractable(t)}

\* What may follow the first sequence of a text
SecondTagLists == {<<>>, <<"TEEC">>, <<"ART", "ART", "NM">>}

Held(list, par, finalized) ==
    [items |-> list, par |-> par, finalized |-> finalized]

FinInit ==
    /\ \E t1 \in TagLists, t2 \in SecondTagLists :
          sequences =
              <<Held(RawSequence(t1, 0), NoParents(t1), FALSE)>>
              \o (IF t2 = <<>> THEN <<>>
                  ELSE <<Held(RawSequence(t2, Len(t1) + 1), NoParents(t2),
                              FALSE)>>)
    /\ fk = Len(sequences)
    /\ ferrors = 0
    /\ fexc = None
    /\ ReflIdle /\ ExtIdle /\ CycIdle /\ MoreIdle

\* The body of the loop for the sequence at i, r being what finalize made
\* of it: the sequence is deleted when finalize raised or left it empty
finalized_sequences(seqs, i, r) ==
    IF r.exc # "ok" \/ r.list = <<>>
    THEN SubSeq(seqs, 1, i - 1) \o SubSeq(seqs, i + 1, Len(seqs))
    ELSE [seqs EXCEPT ![i] = Held(r.list, r.par, TRUE)]

\* One pass of `for i, sequence in list_enum(self, reverse=True)`
FinalizeSequence ==
    /\ fk >= 1
    /\ sequences' =
           finalized_sequences(sequences, fk, finalize(sequences[fk].items))
    /\ ferrors' = IF finalize(sequences[fk].items).exc # "ok"
                  THEN ferrors + 1 ELSE ferrors
    /\ fexc' = finalize(sequences[fk].items).exc
    /\ fk' = fk - 1
    /\ UNCHANGED <<refl_vars, ext_vars, cyc_vars, more_vars>>

FinNext == FinalizeSequence

SpecFinalize == FinInit /\ [][FinNext]_vars

\* C1: after TokenSequences has processed a text, every sequence it still
\* holds consists of coordinates and connectors only.
C1_CoordinatedOutcome ==
    fk = 0 => \A i \in 1..Len(sequences) : coordinated(sequences[i].items)

(***************************************************************************)
(* token_sequences.py: TokenSequences._extract.  A text is TextLen         *)
(* characters, each white space or not; _find_tokens gives the matches of  *)
(* the patterns, class by class and pattern by pattern, the matches of one *)
(* pattern from the left and without overlap.                              *)
(***************************************************************************)
TextLen == 4
MaxFound == 3
MaxSpan == 2

\* The order of the classes in _find_tokens, and in it the tags searched for
ExtractTags == <<"TEEC", "SEPARATE", "ART">>

Spans ==
    {sp \in (0..TextLen) \X (0..TextLen) :
        sp[1] <= sp[2] /\ sp[2] - sp[1] <= MaxSpan}

Matches == {[k |-> k, a |-> sp[1], b |-> sp[2]] :
                k \in 1..Len(ExtractTags), sp \in Spans}

\* re.finditer: two matches of one pattern do not overlap
Disjoint(m, n) == m.k = n.k => (m.b <= n.a \/ n.b <= m.a)

\* The sets of at most MaxFound matches
RECURSIVE SetsUpTo(_)
SetsUpTo(n) ==
    IF n = 0 THEN {{}}
    ELSE SetsUpTo(n - 1)
         \cup {ms \cup {m} : ms \in SetsUpTo(n - 1), m \in Matches}

FoundSets ==
    {ms \in SetsUpTo(MaxFound) : \A m, n \in ms : m # n => Disjoint(m, n)}

\* The matches in the order _find_tokens appends them
MatchBefore(m, n) ==
    \/ m.k < n.k
    \/ (m.k = n.k /\ m.a < n.a)
    \/ (m.k = n.k /\ m.a = n.a /\ m.b < n.b)

RECURSIVE references(_)
references(ms) ==
    IF ms = {} THEN <<>>
    ELSE LET m == CHOOSE x \in ms : \A y \in ms \ {x} : MatchBefore(x, y)
         IN  <<Tok(tag_2_group(ExtractTags[m.k]), ExtractTags[m.k], m.a, m.b,
                   FALSE)>> \o references(ms \ {m})

\* ReferenceToken.sort_key: (span.start, -span.length)
sort_key_less(x, y) ==
    x.start < y.start
    \/ (x.start = y.start /\ (y.end - y.start) < (x.end - x.start))

\* sorted(refs, key=attrgetter('sort_key')): stable
RECURSIVE insert_sorted(_, _)
insert_sorted(list, x) ==
    IF list = <<>> THEN <<x>>
    ELSE IF sort_key_less(x, list[1]) THEN <<x>> \o list
    ELSE <<list[1]>> \o insert_sorted(Tail(list), x)

RECURSIVE sorted(_)
sorted(list) ==
    IF list = <<>> THEN <<>>
    ELSE insert_sorted(sorted(SubSeq(list, 1, Len(list) - 1)),
                       list[Len(list)])

\* A test that lets every token through
overlaps_never(inter_start, inter_end) == FALSE

\* A test that also stops the token that starts where the last one ends
overlaps_or_touches(inter_start, inter_end) == inter_start >= inter_end

\* inter_span.start > inter_span.end: the token starts before the end of
\* the last token taken
overlaps(inter_start, inter_end) == inter_start > inter_end

\* TokenSequence.white_spaces.match(self.text[start:end]) is not None
white_spaces(txt, start, end) == \A i \in start..(end - 1) : i \in txt

LastToken(seqs) == seqs[Len(seqs)][Len(seqs[Len(seqs)])]

WithTail(seqs) ==
    [seqs EXCEPT ![Len(seqs)] =
        [@ EXCEPT ![Len(@)] = [@ EXCEPT !.tail = TRUE]]]

ExtInit ==
    /\ text \in SUBSET (0..(TextLen - 1))
    /\ \E ms \in FoundSets : found = references(ms)
    /\ sorted_refs = <<>>
    /\ extracted = <<>>
    /\ ek = 0
    /\ epc = "find"
    /\ skipped = 0
    /\ ReflIdle /\ FinIdle /\ CycIdle /\ MoreIdle

\* refs = sorted(self._find_tokens(), ...) and the first sequence
ExtractStart ==
    /\ epc = "find"
    /\ sorted_refs' = sorted(found)
    /\ extracted' = IF found = <<>> THEN <<>> ELSE <<<<sorted(found)[1]>>>>
    /\ ek' = 2
    /\ epc' = IF found = <<>> THEN "done" ELSE "loop"
    /\ UNCHANGED <<text, found, skipped>>
    /\ UNCHANGED <<refl_vars, fin_vars, cyc_vars, more_vars>>

\* One pass of `for r in refs[1:]`
ExtractRef ==
    /\ epc = "loop"
    /\ ek <= Len(sorted_refs)
    /\ LET r == sorted_refs[ek]
           prev == LastToken(extracted)
       IN  IF overlaps(prev.end, r.start)
           THEN /\ skipped' = skipped + 1
                /\ UNCHANGED <<extracted, epc>>
           ELSE IF ~white_spaces(text, prev.end, r.start)
                   \/ r.tag = "SEPARATE"
           THEN /\ extracted' = Append(extracted, <<r>>)
                /\ UNCHANGED <<skipped, epc>>
           ELSE IF prev.end <= r.start
           THEN /\ extracted' =
                       [WithTail(extracted) EXCEPT
                           ![Len(extracted)] = Append(@, r)]
                /\ UNCHANGED <<skipped, epc>>
           ELSE \* TokenSequence.append: the assertion fails
                /\ extracted' = WithTail(extracted)
                /\ epc' = "AssertionError"
                /\ UNCHANGED skipped
    /\ ek' = ek + 1
    /\ UNCHANGED <<text, found, sorted_refs>>
    /\ UNCHANGED <<refl_vars, fin_vars, cyc_vars, more_vars>>

\* The sequences of a single token that is neither a named entity nor an
\* ANX are removed
RECURSIVE pruned(_)
pruned(seqs) ==
    IF seqs = <<>> THEN <<>>
    ELSE (IF /\ Len(seqs[1]) = 1
             /\ seqs[1][1].group # "named_entity"
             /\ seqs[1][1].tag # "ANX"
          THEN <<>> ELSE <<seqs[1]>>) \o pruned(Tail(seqs))

ExtractPrune ==
    /\ epc = "loop"
    /\ ek > Len(sorted_refs)
    /\ extracted' = pruned(extracted)
    /\ epc' = "done"
    /\ UNCHANGED <<text, found, sorted_refs, ek, skipped>>
    /\ UNCHANGED <<refl_vars, fin_vars, cyc_vars, more_vars>>

ExtNext == ExtractStart \/ ExtractRef \/ ExtractPrune

SpecExtract == ExtInit /\ [][ExtNext]_vars

\* The tokens of all sequences, in the order of the sequences
RECURSIVE Flat(_)
Flat(seqs) == IF seqs = <<>> THEN <<>> ELSE seqs[1] \o Flat(Tail(seqs))

\* C2: in every token sequence each token starts at or after the end of the
\* token before it, starts do not decrease, and the sequences follow each
\* other without overlapping.
C2_Ordering ==
    /\ epc # "AssertionError"
    /\ \A i \in 1..(Len(Flat(extracted)) - 1) :
          /\ Flat(extracted)[i].end <= Flat(extracted)[i + 1].start
          /\ Flat(extracted)[i].start <= Flat(extracted)[i + 1].start
    /\ \A i \in 1..Len(extracted) : extracted[i] # <<>>

\* _extract is over; it passed over a token that overlaps the one before
\* it, and it holds two sequences, one of them of two tokens.
C2_Witness ==
    /\ epc = "done"
    /\ skipped >= 1
    /\ Len(extracted) >= 1
    /\ \E i \in 1..Len(extracted) : Len(extracted[i]) >= 2

\* The token the next pass of the loop of _extract looks at
PassesRef == epc = "loop" /\ ek <= Len(sorted_refs)

Skips == extracted' = extracted /\ skipped' = skipped + 1

Accepts ==
    /\ Len(Flat(extracted')) = Len(Flat(extracted)) + 1
    /\ Flat(extracted')[Len(Flat(extracted'))] = sorted_refs[ek]
    /\ skipped' = skipped

\* C27 as the specification words it: a token whose start is less than or
\* equal to the end of the last accepted token is skipped.
C27_SkipsAtOrBeforeEnd ==
    [][(PassesRef /\ sorted_refs[ek].start <= LastToken(extracted).end)
           => Skips]_vars

\* C27: in the sequencer, a token whose start offset is less than the end
\* offset of the last accepted token is skipped and becomes part of no
\* sequence; a token that starts at or after that end is accepted as the
\* last token of the sequences.
C27_SkipsBeforeEnd ==
    [][PassesRef =>
          IF sorted_refs[ek].start < LastToken(extracted).end
          THEN Skips ELSE Accepts]_vars

\* One token was skipped, and one was accepted that starts where the token
\* before it ends.
C27_Witness ==
    /\ epc = "loop"
    /\ skipped >= 1
    /\ \E i \in 1..(Len(Flat(extracted)) - 1) :
          /\ Flat(extracted)[i].end = Flat(extracted)[i + 1].start
          /\ Flat(extracted)[i].start < Flat(extracted)[i].end

(***************************************************************************)
(* structures.py: a Cycle and the calls of turn on it.  The cycle is made  *)
(* with one of the two lengths the program uses, and is turned with        *)
(* targets of one, two, five and six coordinates.                          *)
(***************************************************************************)
MaxTurns == 6

CycleLengths == {DEFAULT_CYCLE, MEM_SIZE}

LongTarget ==
    <<StdCoordinate("EU", "11957E", "document"),
      StdCoordinate("PRT", "1", "container"),
      StdCoordinate("TIT", "V", "container"),
      StdCoordinate("ART", "5", "leaf"),
      StdCoordinate("PG", "2", "paragraph"),
      StdCoordinate("LTR", "b", "paragraph")>>

CycleTargets ==
    {SubSeq(LongTarget, 1, 1),
     <<LongTarget[1], LongTarget[4]>>,
     SubSeq(LongTarget, 1, 5),
     LongTarget}

\* Cycle(length)
CycInit ==
    /\ cycle = <<>>
    /\ length \in CycleLengths
    /\ turns = 0
    /\ ReflIdle /\ FinIdle /\ ExtIdle /\ MoreIdle

\* Cycle.turn(item)
Turn(item) ==
    /\ turns < MaxTurns
    /\ cycle' = turn(cycle, length, item)
    /\ turns' = turns + 1
    /\ UNCHANGED length
    /\ UNCHANGED <<refl_vars, fin_vars, ext_vars, more_vars>>

CycNext == \E item \in CycleTargets : Turn(item)

SpecCycle == CycInit /\ [][CycNext]_vars

\* C7: after any sequence of turns a Cycle created with length N holds at
\* most N targets.
C7_CycleBounded == Len(cycle) <= length

(***************************************************************************)
(* Properties of the references and of the memory                          *)
(***************************************************************************)
Targets(h) == [i \in 1..Len(h) |-> h[i].target]

Min(a, b) == IF a < b THEN a ELSE b

RolesMonotone(t) ==
    \A i \in 1..(Len(t) - 1) :
        /\ t[i].role \in AxisRoleNames
        /\ t[i + 1].role \in AxisRoleNames
        /\ RoleValue(t[i].role) <= RoleValue(t[i + 1].role)

HasAnnex(t) == \E i \in 1..Len(t) : t[i].axis = "ANX"

\* C3: in every target a reference is emitted from, the roles do not
\* decrease from the head on, unless the target holds an ANX coordinate.
C3_RolesMonotone ==
    \A i \in 1..Len(refs) :
        HasAnnex(refs[i].target) \/ RolesMonotone(refs[i].target)

\* C4: every reference comes from a target that has a coordinate and whose
\* first coordinate is no back-reference placeholder.
C4_NoBackrefEmitted ==
    \A i \in 1..Len(refs) :
        Len(refs[i].target) >= 1 /\ ~has_backref(refs[i].target)

C6_ListMemory ==
    (callKind = "list" /\ pc \in {"text", "seq"}) =>
        \A i \in 1..Len(turnedInCall) :
            turnedInCall[i].textNo < textNo =>
                turnedInCall[i].target \in Range(Recent)

\* C8 as stated: a JoiningError is not counted.
C8_JoiningErrorSilent == last.exc = "JoiningError" => last.errs = 0

\* C8: a JoiningError raised by join is counted once, the loop over the
\* coordinates of the sequence goes on, and the text is among the
\* problematics once it is done.
C8_JoiningErrorCounted ==
    /\ last.exc = "JoiningError" =>
          /\ last.site = "join"
          /\ last.errs = 1
          /\ errors >= 1
          /\ ~aborted
    /\ ("JoiningError" \in raised /\ pc \in {"call", "idle"}) =>
          textId \in Range(problematics)

C8_Witness ==
    /\ last.exc = "JoiningError"
    /\ pc = "call"
    /\ errors = 1
    /\ problematics = <<textId>>

\* C9: the pass in which InconsistentTargetError is raised counts one error,
\* keeps the references and leaves the loop; the coordinates that remain in
\* the sequence change neither the references nor the counter; the next
\* sequence starts with the loop running.
C9_InconsistentTargetAborts ==
    [][/\ (pc = "seq" /\ ~aborted /\ seqLen' = seqLen + 1
              /\ last'.exc = "InconsistentTargetError") =>
          (aborted' /\ errors' = errors + 1 /\ refs' = refs)
       /\ (pc = "seq" /\ aborted /\ pc' = "seq") =>
          (aborted' /\ errors' = errors /\ refs' = refs
              /\ memory' = memory /\ recent' = recent)
       /\ (pc = "text" /\ pc' = "seq") => ~aborted']_vars

\* After a reference, InconsistentTargetError left the loop.
C9_Witness ==
    /\ last.exc = "InconsistentTargetError"
    /\ aborted
    /\ errors = 1
    /\ refs # <<>>

MaxFrames == 5

core_vars == <<refl_vars, fin_vars, ext_vars, cyc_vars>>

CoreIdle == ReflIdle /\ FinIdle /\ ExtIdle /\ CycIdle

\* limit_recursion_depth: if f.recursion_depth > limit
exceeds_never(depth, limit) == FALSE

exceeds(depth, limit) == depth > limit

Frame(fn, inter) == [fn |-> fn, inter |-> inter]

\* CelexHandler.cases
cases(axis_tag) ==
    CASE axis_tag = "REG" -> Frame("reg", "R")
      [] axis_tag = "DEC" -> Frame("direc", "D")
      [] axis_tag = "DIR" -> Frame("direc", "L")
      [] axis_tag = "FDC" -> Frame("direc", "F")

\* finally: if f.recursion_depth > 0: f.recursion_depth -= 1
left(frame, depth) ==
    IF frame.fn = "reg" /\ depth > 0 THEN depth - 1 ELSE depth

EncInit == EncIdle /\ CodIdle /\ TgIdle /\ AuxIdle /\ CoreIdle

EncodeCall(axis_tag, value) ==
    /\ enc_pc \in {"idle", "done", "raised"}
    /\ enc_axis' = axis_tag
    /\ enc_ordinate' = value
    /\ enc_stack' = <<>>
    /\ enc_callee' = cases(axis_tag)
    /\ enc_pc' = "call"
    /\ enc_value' = NoParts
    /\ enc_exc' = None
    /\ hops' = 0
    /\ UNCHANGED recursion_depth
    /\ UNCHANGED <<core_vars, cod_vars, tg_vars, aux_vars>>

\* wrapped(*args) of limit_recursion_depth(1) and, unless it raises, the
\* body of _celex_getter_reg up to its return or to its call of
\* _celex_getter_direc.
EnterReg ==
    /\ enc_pc = "call" /\ enc_callee.fn = "reg"
    /\ Len(enc_stack) < MaxFrames
    /\ IF exceeds(recursion_depth + 1, 1)
       THEN /\ recursion_depth' = 0
            /\ enc_pc' = "raise"
            /\ enc_exc' = "RecursionError"
            /\ enc_callee' = NoCallee
            /\ UNCHANGED <<enc_stack, enc_value, hops>>
       ELSE /\ recursion_depth' = recursion_depth + 1
            /\ enc_stack' = Append(enc_stack, enc_callee)
            /\ hops' = IF enc_stack = <<>> THEN hops ELSE hops + 1
            /\ IF reg_parses(enc_ordinate)
               THEN LET number == Ordinates[enc_ordinate].chunks[1]
                        year == Ordinates[enc_ordinate].chunks[2]
                        swap == /\ Ordinates[enc_ordinate].dom \in {"eu", "ue"}
                                /\ number >= 2015
                    IN  /\ enc_value' =
                              IF swap
                              THEN _build_celex_parts(number, year, "3", "R")
                              ELSE _build_celex_parts(year, number, "3", "R")
                        /\ enc_pc' = "return"
                        /\ enc_callee' = NoCallee
               ELSE /\ enc_callee' = Frame("direc", "R")
                    /\ enc_pc' = "call"
                    /\ UNCHANGED enc_value
            /\ UNCHANGED enc_exc
    /\ UNCHANGED <<enc_axis, enc_ordinate>>
    /\ UNCHANGED <<core_vars, cod_vars, tg_vars, aux_vars>>

\* The body of _celex_getter_direc up to its return or to its call of
\* _celex_getter_reg.
EnterDirec ==
    /\ enc_pc = "call" /\ enc_callee.fn = "direc"
    /\ Len(enc_stack) < MaxFrames
    /\ enc_stack' = Append(enc_stack, enc_callee)
    /\ hops' = IF enc_stack = <<>> THEN hops ELSE hops + 1
    /\ IF direc_parses(enc_ordinate)
       THEN /\ enc_value' =
                  _build_celex_parts(Ordinates[enc_ordinate].chunks[1],
                                     Ordinates[enc_ordinate].chunks[2],
                                     "3", enc_callee.inter)
            /\ enc_pc' = "return"
            /\ enc_callee' = NoCallee
       ELSE /\ enc_callee' = Frame("reg", "R")
            /\ enc_pc' = "call"
            /\ UNCHANGED enc_value
    /\ UNCHANGED <<enc_axis, enc_ordinate, enc_exc, recursion_depth>>
    /\ UNCHANGED <<core_vars, cod_vars, tg_vars, aux_vars>>

\* The innermost handler returns; its caller goes on to its own return:
\* _celex_getter_reg hands the value on, _celex_getter_direc takes the year
\* and the number out of the identifier and builds its own.
EncReturn ==
    /\ enc_pc = "return"
    /\ LET frame == enc_stack[Len(enc_stack)]
           rest == SubSeq(enc_stack, 1, Len(enc_stack) - 1)
       IN  /\ enc_stack' = rest
           /\ recursion_depth' = left(frame, recursion_depth)
           /\ IF rest = <<>>
              THEN enc_pc' = "done" /\ UNCHANGED <<enc_value, enc_exc>>
              ELSE IF rest[Len(rest)].fn = "reg"
              THEN UNCHANGED <<enc_pc, enc_value, enc_exc>>
              ELSE LET year == int(Slice(enc_value.chars, 1, 5))
                       number == int(Slice(enc_value.chars, 6, 10))
                   IN  IF year < 0 \/ number < 0
                       THEN /\ enc_pc' = "raise"
                            /\ enc_exc' = "ValueError"
                            /\ enc_value' = NoParts
                       ELSE /\ enc_value' =
                                  _build_celex_parts(year, number, "3",
                                                     rest[Len(rest)].inter)
                            /\ UNCHANGED <<enc_pc, enc_exc>>
    /\ UNCHANGED <<enc_axis, enc_ordinate, enc_callee, hops>>
    /\ UNCHANGED <<core_vars, cod_vars, tg_vars, aux_vars>>

\* An exception leaves the innermost frame; neither handler catches a
\* RecursionError, nor a ValueError outside of its parsing.
Unwind ==
    /\ enc_pc = "raise"
    /\ IF enc_stack = <<>>
       THEN enc_pc' = "raised" /\ UNCHANGED <<enc_stack, recursion_depth>>
       ELSE /\ enc_stack' = SubSeq(enc_stack, 1, Len(enc_stack) - 1)
            /\ recursion_depth' =
                  left(enc_stack[Len(enc_stack)], recursion_depth)
            /\ UNCHANGED enc_pc
    /\ UNCHANGED <<enc_axis, enc_ordinate, enc_callee, enc_value, enc_exc,
                   hops>>
    /\ UNCHANGED <<core_vars, cod_vars, tg_vars, aux_vars>>

EncStep == EnterReg \/ EnterDirec \/ EncReturn \/ Unwind

EncNext ==
    \/ \E axis_tag \in celexer_cases, value \in DOMAIN Ordinates :
          EncodeCall(axis_tag, value)
    \/ EnterReg
    \/ EnterDirec
    \/ EncReturn
    \/ Unwind

SpecEncode == EncInit /\ [][EncNext]_vars

\* A call that has begun goes on: the interpreter runs it to its end.
SpecEncodeFair == SpecEncode /\ WF_vars(EncStep)

\* The two ways of writing the codec agree.
EncodeAgrees ==
    /\ enc_pc = "done" =>
          celexer_convert(enc_axis, enc_ordinate) =
              [exc |-> "ok", celex |-> joined(enc_value.chars)]
    /\ enc_pc = "raised" =>
          celexer_convert(enc_axis, enc_ordinate).exc = enc_exc

IsDigit(c) == DigitValue(c) >= 0

\* C12: every CELEX identifier an encoding returns is '3', the year as four
\* digits, one of the type letters R, D, L and F, and the number padded with
\* zeros to four digits: ten characters in all, whichever of the two numbers
\* became the year.
C12_CelexShape ==
    enc_pc = "done" =>
        LET celex == enc_value.chars
        IN  /\ Len(celex) = 10
            /\ celex[1] = "3"
            /\ \A i \in 2..5 : IsDigit(celex[i])
            /\ celex[6] \in {"R", "D", "L", "F"}
            /\ \A i \in 7..10 : IsDigit(celex[i])
            /\ int(Slice(celex, 1, 5)) = enc_value.first
            /\ int(Slice(celex, 6, 10)) = enc_value.second

\* The two numbers as the handler that parses the ordinate reads them:
\* number/year for a Regulation, year/number for the others and for a
\* Regulation that falls through to the Directive path.
read_pair(axis_tag, ordinate) ==
    LET chunks == Ordinates[ordinate].chunks
        year0 == IF axis_tag = "REG" /\ reg_parses(ordinate)
                 THEN chunks[2] ELSE chunks[1]
    IN  [year |-> IF year0 < 100 THEN year0 + 1900 ELSE year0,
         number |-> IF axis_tag = "REG" /\ reg_parses(ordinate)
                    THEN chunks[1] ELSE chunks[2]]

\* If exactly one of the two numbers is a plausible year, it is the year of
\* the identifier.
YearGateOne ==
    enc_pc = "done" =>
        LET pair == read_pair(enc_axis, enc_ordinate)
        IN  /\ (_year_test(pair.year) /\ ~_year_test(pair.number))
                  => enc_value.first = pair.year
            /\ (_year_test(pair.number) /\ ~_year_test(pair.year))
                  => enc_value.first = pair.number

\* If both are or neither is, an encoding that was not rejected has swapped
\* them.
YearGateBothOrNeither ==
    enc_pc = "done" =>
        LET pair == read_pair(enc_axis, enc_ordinate)
        IN  (_year_test(pair.year) = _year_test(pair.number))
                => enc_value.first = pair.number

\* C13: the plausibility range [MIN_YEAR, MAX_YEAR] decides which of the two
\* numbers of an ordinate is the year, a year below 100 counting as 19xx: if
\* exactly one lies in the range it is the year of the identifier, and if
\* both or neither do, the pair is rejected or swapped.
C13_YearGate == YearGateOne /\ YearGateBothOrNeither

\* The statement of C14 as it was made: at most one hop.
C14_OneHop == hops <= 1

\* C14: every encoding terminates.  Control passes from one handler to the
\* other at most twice, and at most once when the call enters through the
\* Regulation handler; the call of the Regulation handler that would
\* activate it a second time raises RecursionError, with which the encoding
\* ends, and recursion_depth is 0 again.
C14_BoundedBounce ==
    /\ (enc_pc = "call") ~> (enc_pc \in {"done", "raised"})
    /\ [](hops <= 2 /\ (enc_axis = "REG" => hops <= 1))
    /\ [][(enc_pc = "call" /\ enc_callee.fn = "reg" /\ recursion_depth >= 1)
            => (enc_pc' = "raise" /\ enc_exc' = "RecursionError"
                /\ enc_stack' = enc_stack)]_vars
    /\ [](enc_pc = "raise" => enc_exc = "RecursionError")
    /\ [](enc_pc \in {"idle", "done", "raised"} => recursion_depth = 0)

\* An encoding that entered through the Directive handler, went to the
\* Regulation handler and back, and ended with the error.
C14_Witness ==
    /\ enc_pc = "raised" /\ enc_exc = "RecursionError"
    /\ enc_axis = "DIR" /\ hops = 2 /\ recursion_depth = 0

(***************************************************************************)
(* The codec with its memory: CelexHandler.convert and invert, the caches  *)
(* in front of them, an orchestrator that reflects an element whose text   *)
(* is one citation of a document, and Reflector.reset.                     *)
(***************************************************************************)
MaxCodecCalls == 3

CodecAxes == {"REG", "DIR"}
CodecValues == {"575/2013", "(EU) 575/2013", "2013/575", "of the Council"}
CodecLanguages == {"EN", "DE"}

\* The identifiers as sequences of characters
CelexCharacters ==
    {_build_celex_parts(r.chunks[1], r.chunks[2], "3", inter).chars :
        r \in {x \in OrdinateRows : direc_parses(x.text)},
        inter \in {"R", "D", "L", "F"}}

celex_characters(celex) == CHOOSE c \in CelexCharacters : joined(c) = celex

CodecCelex ==
    {celexer_convert(a, v).celex :
        a \in CodecAxes, v \in {x \in CodecValues : direc_parses(x)}}

INTER_2_DOC_TYPE(inter) ==
    CASE inter = "R" -> "REG"
      [] inter = "D" -> "DEC"
      [] inter = "L" -> "DIR"
      [] inter = "F" -> "FDC"

\* CelexHandler._fall_back_inversion(celex)
_fall_back_inversion(celex) ==
    LET c == celex_characters(celex)
        number == int(Slice(c, 6, 10))
        year == Slice(c, 1, 5)
    IN  IF Len(c) < 6 THEN [exc |-> "IndexError", answer |-> <<>>]
        ELSE IF number < 0 THEN [exc |-> "ValueError", answer |-> <<>>]
        ELSE IF c[6] \notin {"R", "D", "L", "F"}
        THEN [exc |-> "KeyError", answer |-> <<>>]
        ELSE [exc |-> "ok",
              answer |->
                <<INTER_2_DOC_TYPE(c[6]),
                  IF c[6] = "R"
                  THEN joined(str(number)) \o "/" \o joined(year)
                  ELSE joined(year) \o "/" \o joined(str(number))>>]

Entry(celex, language, axis_tag, value) ==
    [celex |-> celex, language |-> language, axis_tag |-> axis_tag,
     value |-> value]

\* self._inverse[(celex, language)] = (axis_tag, value)
set_item(inverse, celex, language, axis_tag, value) ==
    {e \in inverse : ~(e.celex = celex /\ e.language = language)}
        \cup {Entry(celex, language, axis_tag, value)}

\* CelexHandler.invert(celex, language)
invert(inverse, celex, language) ==
    IF \E e \in inverse : e.celex = celex /\ e.language = language
    THEN LET e == CHOOSE x \in inverse :
                      x.celex = celex /\ x.language = language
         IN  [exc |-> "ok", answer |-> <<e.axis_tag, e.value>>,
              fall_back |-> FALSE]
    ELSE [exc |-> _fall_back_inversion(celex).exc,
          answer |-> _fall_back_inversion(celex).answer,
          fall_back |-> TRUE]

\* CelexHandler.convert(axis_tag, value, language) behind its lru_cache:
\* the caches as the call leaves them, and what it returns or raises.
convert(cache, inverse, axis_tag, value, language) ==
    IF \E e \in cache : /\ e.axis_tag = axis_tag /\ e.value = value
                        /\ e.language = language
    THEN LET e == CHOOSE x \in cache : /\ x.axis_tag = axis_tag
                                       /\ x.value = value
                                       /\ x.language = language
         IN  [exc |-> "ok", celex |-> e.celex, cache |-> cache,
              inverse |-> inverse, ran |-> FALSE]
    ELSE LET c == celexer_convert(axis_tag, value)
         IN  IF c.exc # "ok"
             THEN [exc |-> c.exc, celex |-> "", cache |-> cache,
                   inverse |-> inverse, ran |-> FALSE]
             ELSE [exc |-> "ok", celex |-> c.celex,
                   cache |-> cache
                       \cup {Entry(c.celex, language, axis_tag, value)},
                   inverse |-> set_item(inverse, c.celex, language,
                                        axis_tag, value),
                   ran |-> TRUE]

refl_rest ==
    <<profile, cfg, problematics, pc, callKind, remember, recent, deepest,
      errors, refs, aborted, textNo, textId, callNo, seqLen, budget, last,
      raised, turnedInCall, leftover>>

CodInit == CodIdle /\ EncIdle /\ TgIdle /\ AuxIdle /\ CoreIdle

\* celexer.convert(axis_tag, value, language)
Convert(axis_tag, value, language) ==
    /\ cod_calls < MaxCodecCalls
    /\ cod_calls' = cod_calls + 1
    /\ LET r == convert(convert_cache, _inverse, axis_tag, value, language)
       IN  /\ convert_cache' = r.cache
           /\ _inverse' = r.inverse
           /\ encoded' = IF r.exc = "ok"
                         THEN encoded
                              \cup {Entry(r.celex, language, axis_tag, value)}
                         ELSE encoded
           /\ cod_last' = [op |-> "convert", celex |-> r.celex,
                           language |-> language, exc |-> r.exc,
                           answer |-> <<axis_tag, value>>]
    /\ UNCHANGED <<fall_back_cache, get_spoken_cache, standardize_cache>>
    /\ UNCHANGED <<core_vars, enc_vars, tg_vars, aux_vars>>

\* celexer.invert(celex, language)
Invert(celex, language) ==
    /\ cod_calls < MaxCodecCalls
    /\ cod_calls' = cod_calls + 1
    /\ LET r == invert(_inverse, celex, language)
       IN  /\ fall_back_cache' = IF r.fall_back /\ r.exc = "ok"
                                 THEN fall_back_cache \cup {celex}
                                 ELSE fall_back_cache
           /\ cod_last' = [op |-> "invert", celex |-> celex,
                           language |-> language, exc |-> r.exc,
                           answer |-> r.answer]
    /\ UNCHANGED <<_inverse, convert_cache, get_spoken_cache,
                   standardize_cache, encoded>>
    /\ UNCHANGED <<core_vars, enc_vars, tg_vars, aux_vars>>

\* Reflector("EN", ...)(element) for an element whose one text is the
\* citation of a document: _get_annotations_map renews the memory,
\* get_target standardizes the coordinate, the reference takes its title
\* from get_spoken, and the target is turned into the memory.  Whatever the
\* loop body raises is caught there, and nothing is turned.
Reflect(axis_tag, value) ==
    /\ cod_calls < MaxCodecCalls
    /\ cod_calls' = cod_calls + 1
    /\ LET language == "EN"
           value_tag == IF axis_tag = "REG" THEN "EURCOO" ELSE "EULCOO"
           key == [axis_tag |-> axis_tag, value_tag |-> value_tag,
                   value |-> value, language |-> language]
           hit == key \in standardize_cache
           r == convert(convert_cache, _inverse, axis_tag, value, language)
           std == StdCoordinate(axis_tag, r.celex, "document")
           spoken == [std |-> std, language |-> language]
           title == invert(r.inverse, r.celex, language)
           asks == r.exc = "ok" /\ spoken \notin get_spoken_cache
       IN  /\ convert_cache' = IF hit THEN convert_cache ELSE r.cache
           /\ _inverse' = IF hit THEN _inverse ELSE r.inverse
           /\ encoded' = IF ~hit /\ r.exc = "ok"
                         THEN encoded
                              \cup {Entry(r.celex, language, axis_tag, value)}
                         ELSE encoded
           /\ standardize_cache' = IF r.exc = "ok"
                                   THEN standardize_cache \cup {key}
                                   ELSE standardize_cache
           /\ fall_back_cache' = IF asks /\ title.fall_back /\ title.exc = "ok"
                                 THEN fall_back_cache \cup {r.celex}
                                 ELSE fall_back_cache
           /\ get_spoken_cache' = IF asks /\ title.exc = "ok"
                                  THEN get_spoken_cache \cup {spoken}
                                  ELSE get_spoken_cache
           /\ memory' = IF r.exc = "ok" /\ (asks => title.exc = "ok")
                        THEN turn(<<>>, MEM_SIZE, <<std>>)
                        ELSE <<>>
           /\ cod_last' = [op |-> "reflect", celex |-> r.celex,
                           language |-> language,
                           exc |-> IF r.exc # "ok" THEN r.exc
                                   ELSE IF asks THEN title.exc ELSE "ok",
                           answer |-> <<axis_tag, value>>]
    /\ UNCHANGED <<refl_rest, fin_vars, ext_vars, cyc_vars, enc_vars, tg_vars,
                   aux_vars>>

\* Reflector.reset()
Reset ==
    /\ cod_calls < MaxCodecCalls
    /\ cod_calls' = cod_calls + 1
    /\ _inverse' = {}
    /\ fall_back_cache' = {}
    /\ convert_cache' = {}
    /\ get_spoken_cache' = {}
    /\ standardize_cache' = {}
    /\ encoded' = {}
    /\ cod_last' = [op |-> "reset", celex |-> "", language |-> "",
                    exc |-> "ok", answer |-> <<>>]
    /\ UNCHANGED <<core_vars, enc_vars, tg_vars, aux_vars>>

CodNext ==
    \/ \E axis_tag \in CodecAxes, value \in CodecValues,
          language \in CodecLanguages : Convert(axis_tag, value, language)
    \/ \E celex \in CodecCelex, language \in CodecLanguages :
          Invert(celex, language)
    \/ \E axis_tag \in CodecAxes, value \in CodecValues :
          Reflect(axis_tag, value)
    \/ Reset

SpecCodec == CodInit /\ [][CodNext]_vars

\* C11: decoding the identifier of a triple (docType, citation, lang) that
\* the codec has encoded since the last reset gives back that docType and
\* that citation, whatever was encoded or decoded in between.
C11_RoundTrip ==
    cod_last.op = "invert" =>
        \A e \in encoded :
            (e.celex = cod_last.celex /\ e.language = cod_last.language)
                => /\ cod_last.exc = "ok"
                   /\ cod_last.answer = <<e.axis_tag, e.value>>

\* C18: after reset() nothing remains of what was processed: the inverse
\* map and the four caches are empty and the memory holds no target.
C18_ResetClearsAll ==
    cod_last.op = "reset" =>
        /\ _inverse = {} /\ convert_cache = {} /\ fall_back_cache = {}
        /\ get_spoken_cache = {} /\ standardize_cache = {}
        /\ memory = <<>>

\* The part of it that is about the codec and the caches
ResetClearsCaches ==
    cod_last.op = "reset" =>
        /\ _inverse = {} /\ convert_cache = {} /\ fall_back_cache = {}
        /\ get_spoken_cache = {} /\ standardize_cache = {}

(***************************************************************************)
(* structures.py: the href of a Target and Target.create.  The strings are *)
(* sequences of characters here, since create takes an href apart.         *)
(***************************************************************************)
MaxTargetLen == 3

\* The characters of the axis tags and of the values of the coordinates
spell(string) ==
    CASE string = "PRT" -> <<"P", "R", "T">>
      [] string = "TIT" -> <<"T", "I", "T">>
      [] string = "ANX" -> <<"A", "N", "X">>
      [] string = "ART" -> <<"A", "R", "T">>
      [] string = "PG" -> <<"P", "G">>
      [] string = "LTR" -> <<"L", "T", "R">>
      [] string = "TEU" -> <<"T", "E", "U">>
      [] string = "1" -> <<"1">>
      [] string = "2" -> <<"2">>
      [] string = "5" -> <<"5">>
      [] string = "V" -> <<"V">>
      [] string = "I" -> <<"I">>
      [] string = "(b)" -> <<"(", "b", ")">>
      [] string = "toc" -> <<"t", "o", "c">>
      [] string = "toc-" -> <<"t", "o", "c", "-">>
      [] string = "#toc-" -> <<"#", "t", "o", "c", "-">>
      [] string = "/eu/" -> <<"/", "e", "u", "/">>
      [] string = "TOC/#toc-" ->
            <<"T", "O", "C", "/", "#", "t", "o", "c", "-">>

\* value.strip('()')
RECURSIVE strip(_)
strip(chars) ==
    IF chars = <<>> THEN chars
    ELSE IF Head(chars) \in {"(", ")"} THEN strip(Tail(chars))
    ELSE IF chars[Len(chars)] \in {"(", ")"}
    THEN strip(SubSeq(chars, 1, Len(chars) - 1))
    ELSE chars

\* StdCoordinate.collated, for the roles for which it raises nothing
collated(c) ==
    IF c.value = None THEN spell(c.axis)
    ELSE IF c.role \in {"paragraph", "document"} THEN strip(spell(c.value))
    ELSE spell(c.axis) \o <<"_">> \o strip(spell(c.value))

\* sep.join(collated of the coordinates of cs)
RECURSIVE join_collated(_, _)
join_collated(sep, cs) ==
    IF cs = <<>> THEN <<>>
    ELSE IF Len(cs) = 1 THEN collated(cs[1])
    ELSE collated(cs[1]) \o <<sep>> \o join_collated(sep, Tail(cs))

_insider_href(self) ==
    IF self[1].role = "container"
    THEN spell("#toc-") \o join_collated("-", self)
    ELSE <<"#">> \o join_collated("-", self)

\* Target._external_href, for a target get_href raises nothing for
_external_href(self) ==
    LET result == spell("/eu/") \o collated(self[1]) \o <<"/">>
    IN  IF Len(self) = 1 THEN result
        ELSE LET second ==
                    IF self[2].role = "container"
                    THEN result \o spell("TOC/#toc-") \o collated(self[2])
                            \o (IF Len(self) > 2 THEN <<"-">> ELSE <<>>)
                    ELSE result \o collated(self[2]) \o <<"/">>
                            \o (IF Len(self) > 2 THEN <<"#">> ELSE <<>>)
             IN  IF Len(self) = 2 THEN second
                 ELSE second \o join_collated("-", SubSeq(self, 3, Len(self)))

\* Target.get_href(domain) with domain = '' and a document that is no URL
get_href(self) ==
    IF self[1].role = "document" THEN _external_href(self)
    ELSE _insider_href(self)

startswith(chars, prefix) ==
    Len(chars) >= Len(prefix) /\ SubSeq(chars, 1, Len(prefix)) = prefix

\* chars.replace(old, '')
RECURSIVE removed(_, _)
removed(chars, old) ==
    IF chars = <<>> THEN chars
    ELSE IF startswith(chars, old)
    THEN removed(SubSeq(chars, Len(old) + 1, Len(chars)), old)
    ELSE <<Head(chars)>> \o removed(Tail(chars), old)

\* The index of the first sep in chars, 0 when there is none
RECURSIVE find(_, _)
find(chars, sep) ==
    IF chars = <<>> THEN 0
    ELSE IF Head(chars) = sep THEN 1
    ELSE IF find(Tail(chars), sep) = 0 THEN 0
    ELSE 1 + find(Tail(chars), sep)

\* chars.split(sep)
RECURSIVE split(_, _)
split(chars, sep) ==
    IF find(chars, sep) = 0 THEN <<chars>>
    ELSE <<SubSeq(chars, 1, find(chars, sep) - 1)>>
            \o split(SubSeq(chars, find(chars, sep) + 1, Len(chars)), sep)

\* get_doc_type(celex), celex given by its characters
get_doc_type(celex) ==
    IF Len(celex) >= 6 /\ celex[6] \in {"R", "D", "L", "F"}
    THEN INTER_2_DOC_TYPE(celex[6])
    ELSE "DOC"

Created(target) == [exc |-> "ok", none |-> FALSE, target |-> target]

\* Target.create(input_) for a str: the Target, None, or what it raises.
\* StdCoordinate(*level.split('_', 1), role=...) is a TypeError for a level
\* without '_'.
create(input_) ==
    IF input_ = spell("toc") THEN NoOut
    ELSE IF startswith(input_, spell("toc-"))
    THEN LET levels == removed(input_, spell("toc-"))
         IN  IF levels = spell("ANX")
             THEN Created(<<StdCoordinate("ANX", None, "container")>>)
             ELSE IF \E i \in 1..Len(split(levels, "-")) :
                        find(split(levels, "-")[i], "_") = 0
             THEN [exc |-> "TypeError", none |-> FALSE, target |-> <<>>]
             ELSE Created(
                    [i \in 1..Len(split(levels, "-")) |->
                        LET lvl == split(levels, "-")[i]
                            k == find(lvl, "_")
                        IN  StdCoordinate(
                                joined(SubSeq(lvl, 1, k - 1)),
                                joined(SubSeq(lvl, k + 1, Len(lvl))),
                                "container")])
    ELSE IF startswith(input_, spell("/eu/"))
    THEN LET celex == split(input_, "/")[3]
         IN  Created(<<StdCoordinate(get_doc_type(celex), joined(celex),
                                     "document")>>)
    ELSE NoOut

HrefCoordinates ==
    {StdCoordinate("PRT", "1", "container"),
     StdCoordinate("TIT", "V", "container"),
     StdCoordinate("ANX", None, "container"),
     StdCoordinate("ANX", "I", "leaf"),
     StdCoordinate("ART", "5", "leaf"),
     StdCoordinate("PG", "2", "paragraph"),
     StdCoordinate("LTR", "(b)", "paragraph")}

TargetsOver(coordinates, n) ==
    UNION {[1..k -> coordinates] : k \in 1..n}

HrefInit ==
    /\ tg_self \in TargetsOver(HrefCoordinates, MaxTargetLen)
    /\ tg_args = NoArgs /\ tg_href = <<>> /\ tg_out = NoOut
    /\ tg_pc = "start"
    /\ CelexIdle /\ AuxIdle /\ CoreIdle

\* target.get_href('')
GetHref ==
    /\ tg_pc = "start"
    /\ tg_href' = get_href(tg_self)
    /\ tg_pc' = "href"
    /\ UNCHANGED <<tg_self, tg_args, tg_out>>
    /\ UNCHANGED <<core_vars, celex_vars, aux_vars>>

\* Target.create(href[1:])
Create ==
    /\ tg_pc = "href"
    /\ tg_out' = create(Tail(tg_href))
    /\ tg_pc' = "done"
    /\ UNCHANGED <<tg_self, tg_args, tg_href>>
    /\ UNCHANGED <<core_vars, celex_vars, aux_vars>>

HrefNext == GetHref \/ Create

SpecHref == HrefInit /\ [][HrefNext]_vars

\* C15: a target whose href is neither that of a document nor an absolute
\* URL -- headed by a container, a leaf or a paragraph -- is what
\* Target.create makes of its href without the leading '#'.
C15_HrefRoundTrip ==
    tg_pc = "done" =>
        tg_out.exc = "ok" /\ ~tg_out.none /\ tg_out.target = tg_self

\* The targets for which it is so: containers only, the whole-annex
\* coordinate alone.
HrefRoundTripContainers ==
    (/\ tg_pc = "done"
     /\ \A i \in 1..Len(tg_self) : tg_self[i].role = "container"
     /\ (Len(tg_self) > 1 => \A i \in 1..Len(tg_self) :
                                tg_self[i].value # None))
        => tg_out.exc = "ok" /\ ~tg_out.none /\ tg_out.target = tg_self

(***************************************************************************)
(* structures.py: Target.contextualize, applied again and again to one     *)
(* target, with a container context or with a document context.            *)
(***************************************************************************)
MaxApplications == 3

CtxCoordinates ==
    {StdCoordinate("REG", "32013R0575", "document"),
     StdCoordinate("PRT", "2", "container"),
     StdCoordinate("TIT", "I", "container"),
     StdCoordinate("CHP", "A", "container"),
     StdCoordinate("ART", "2", "leaf"),
     StdCoordinate("PG", "2", "paragraph"),
     StdCoordinate("SNT", "1", "phrase")}

\* Container contexts: those of the tests, and one that is no chain of
\* containers, as Target.create makes it of a list of axis-value pairs.
CtxContainers ==
    {<<StdCoordinate("PRT", "1", "container"),
       StdCoordinate("TIT", "V", "container")>>,
     <<StdCoordinate("PRT", "1", "container")>>,
     <<StdCoordinate("TIT", "V", "container"),
       StdCoordinate("ART", "5", "leaf")>>}

CtxInit ==
    /\ tg_self \in TargetsOver(CtxCoordinates, MaxTargetLen)
    /\ \E container \in CtxContainers :
          tg_args = [container |-> container, document |-> docTEU,
                     previous |-> <<>>]
    /\ tg_href = <<>> /\ tg_out = NoOut
    /\ tg_pc = <<>>
    /\ CelexIdle /\ AuxIdle /\ CoreIdle

\* target.contextualize(container=...) or target.contextualize(document=...):
\* tg_pc lists the calls made, tg_out holds the target as it was before the
\* call and what the call raised.  The phrases are gone from the list even
\* when the call raises later.
Contextualize(kind) ==
    /\ Len(tg_pc) < MaxApplications
    /\ LET r == IF kind = "container"
                THEN contextualize(tg_self, tg_args.container, NoDocument)
                ELSE contextualize(tg_self, <<>>, tg_args.document)
       IN  /\ tg_self' = IF r.exc = "UnsupportedRole" THEN tg_self
                         ELSE IF r.exc # "ok"
                         THEN SelectSeq(tg_self,
                                        LAMBDA c : c.role # "phrase")
                         ELSE r.target
           /\ tg_out' = [exc |-> r.exc, none |-> TRUE, target |-> tg_self]
    /\ tg_pc' = Append(tg_pc, kind)
    /\ UNCHANGED <<tg_args, tg_href>>
    /\ UNCHANGED <<core_vars, celex_vars, aux_vars>>

CtxNext == \E kind \in {"container", "document"} : Contextualize(kind)

SpecContextualize == CtxInit /\ [][CtxNext]_vars

\* The target the last call was made on has a coordinate of role phrase
PhraseAt(k) ==
    /\ Len(tg_pc) >= 1
    /\ k \in 1..Len(tg_out.target)
    /\ tg_out.target[k].role = "phrase"

\* C28 as the specification words it: contextualising fails with
\* UnsupportedRole whenever any coordinate of the path has role phrase, at
\* whatever position.
C28_AnyPhraseFails ==
    \A k \in 1..MaxTargetLen : PhraseAt(k) => tg_out.exc = "UnsupportedRole"

\* C28: contextualising a target fails with UnsupportedRole exactly when
\* the last coordinate of the target has role phrase; a call that does not
\* fail so leaves no coordinate of role phrase in the target.
C28_LastPhraseFails ==
    Len(tg_pc) >= 1 =>
        /\ tg_out.exc = "UnsupportedRole" <=> PhraseAt(Len(tg_out.target))
        /\ tg_out.exc = "UnsupportedRole" => tg_self = tg_out.target
        /\ tg_out.exc # "UnsupportedRole" =>
              \A i \in 1..Len(tg_self) : tg_self[i].role # "phrase"

\* A call on a target that ends in a phrase, which failed, and
C28_Witness ==
    /\ PhraseAt(Len(tg_out.target))
    /\ Len(tg_out.target) >= 2
    /\ tg_out.exc = "UnsupportedRole"

\* a call on a target with a phrase before its last coordinate, which did
\* not fail and removed the phrase.
PhraseIgnored ==
    /\ PhraseAt(1)
    /\ Len(tg_out.target) >= 2
    /\ tg_out.exc = "ok"
    /\ \A i \in 1..Len(tg_self) : tg_self[i].role # "phrase"

\* The last two calls were made with the same context.
Repeated ==
    Len(tg_pc) >= 2 /\ tg_pc[Len(tg_pc)] = tg_pc[Len(tg_pc) - 1]

\* C20: contextualize is idempotent: a second application with the same
\* container context, or with the same document context, leaves the target
\* as the first one left it.
C20_ContextualizeIdempotent == Repeated => tg_self = tg_out.target

\* A target to which the container context has added PRT 1 and the
\* document context the document, and a second application of the latter.
C20_Witness ==
    /\ tg_pc = <<"container", "document", "document">>
    /\ tg_out.exc = "ok"
    /\ Len(tg_self) >= 3
    /\ tg_self[1] = docTEU
    /\ tg_self[2] = StdCoordinate("PRT", "1", "container")
    /\ tg_self = tg_out.target

\* The same for the container context: added by the first application,
\* left alone by the second.
ContainerTwice ==
    /\ tg_pc = <<"container", "container">>
    /\ tg_out.exc = "ok"
    /\ tg_self[1] = StdCoordinate("PRT", "1", "container")
    /\ tg_self = tg_out.target

(***************************************************************************)
(* structures.py: Target.join of a target that begins with a               *)
(* back-reference, against a cycle of recent targets.                      *)
(***************************************************************************)
MaxPrevious == 2
MaxTail == 2

\* The back-references: of a treaty, a title, an article, a paragraph, and
\* an anonymous one.
JoinHeads ==
    {StdCoordinate("TRT", "XPREVX", "document"),
     StdCoordinate("TIT", "XPREVX", "container"),
     StdCoordinate("ART", "XPREVX", "leaf"),
     StdCoordinate("PG", "XPREVX", "paragraph"),
     StdCoordinate(GroupConnector, "THEREOF", None)}

JoinTails ==
    TargetsOver({StdCoordinate("CHP", "A", "container"),
                 StdCoordinate("ART", "7", "leaf"),
                 StdCoordinate("LTR", "a", "paragraph")}, MaxTail)

RecentTargets ==
    {<<StdCoordinate("PND", "TEEC", "document"),
       StdCoordinate("ART", "5", "leaf")>>,
     <<StdCoordinate("REG", "32013R0575", "document"),
       StdCoordinate("PRT", "1", "container"),
       StdCoordinate("TIT", "V", "container")>>,
     <<StdCoordinate("ART", "2", "leaf"),
       StdCoordinate("PG", "1", "paragraph")>>,
     <<StdCoordinate("TIT", "I", "container"),
       StdCoordinate("CHP", "B", "container")>>,
     <<StdCoordinate("PRT", "2", "container")>>}

JoinInit ==
    /\ \E head \in JoinHeads, rest \in JoinTails :
          tg_self = <<head>> \o rest
    /\ \E previous \in UNION {[1..k -> RecentTargets] : k \in 0..MaxPrevious} :
          tg_args = [container |-> <<>>, document |-> NoDocument,
                     previous |-> previous]
    /\ tg_href = <<>> /\ tg_out = NoOut
    /\ tg_pc = "start"
    /\ CelexIdle /\ AuxIdle /\ CoreIdle

\* target.join(previous): tg_out holds the target as it was and what the
\* call raised.
Join ==
    /\ tg_pc = "start"
    /\ LET j == join(tg_self, tg_args.previous)
       IN  /\ tg_self' = j.target
           /\ tg_out' = [exc |-> j.exc, none |-> TRUE, target |-> tg_self]
    /\ tg_pc' = "joined"
    /\ UNCHANGED <<tg_args, tg_href>>
    /\ UNCHANGED <<core_vars, celex_vars, aux_vars>>

JoinNext == Join

SpecJoin == JoinInit /\ [][JoinNext]_vars

Axes(t) == {t[i].axis : i \in 1..Len(t)}

Least(S) == CHOOSE k \in S : \A h \in S : k <= h

\* The back-reference of the target that was joined, a treaty counting as a
\* named entity
Backref ==
    LET head == tg_out.target[1]
    IN  IF head.axis = "TRT"
        THEN StdCoordinate("PND", head.value, head.role) ELSE head

\* The recent targets that hold the axis of the back-reference, by their
\* place in the cycle (1 is the newest), and the newest of them
Holders ==
    {k \in 1..Len(tg_args.previous) : Backref.axis \in Axes(tg_args.previous[k])}

Chosen == tg_args.previous[Least(Holders)]

\* The places of the chosen target that match the back-reference: the same
\* role for a document and for a leaf, the same axis as well for a container
Matching ==
    {i \in 1..Len(Chosen) :
        /\ Chosen[i].role = Backref.role
        /\ \/ Backref.role \in {"document", "leaf"}
           \/ Backref.role = "container" /\ Chosen[i].axis = Backref.axis}

\* C19: a target that begins with a back-reference is joined with the newest
\* recent target that holds the axis of the back-reference (TRT counting as
\* PND): its coordinates from the head to the first one that matches (the
\* same role for a document and a leaf, the same axis for a container) take
\* the place of the back-reference, and the rest of the target follows
\* unchanged.  If no recent target holds the axis, join raises JoiningError.
C19_JoinAsStated ==
    tg_pc = "joined" =>
        IF Holders = {} THEN tg_out.exc = "JoiningError"
        ELSE /\ tg_out.exc = "ok"
             /\ Matching # {}
             /\ tg_self = SubSeq(Chosen, 1, Least(Matching))
                              \o Tail(tg_out.target)

\* What holds of a back-reference of a known role: it is joined with the
\* newest recent target that holds its axis.  If that target has a
\* coordinate that matches, its coordinates from the head to the first match
\* take the place of the back-reference and the rest follows unchanged.  If
\* no recent target holds the axis, or the chosen one has no match -- as for
\* every back-reference of another role, a paragraph for one -- join raises
\* JoiningError.
JoinNamed ==
    (tg_pc = "joined" /\ tg_out.target[1].role # None) =>
        IF Holders = {}
        THEN tg_out.exc = "JoiningError" /\ tg_self = tg_out.target
        ELSE IF Matching = {}
        THEN /\ tg_out.exc = "JoiningError"
             /\ Backref.role \notin {"document", "leaf"}
        ELSE /\ tg_out.exc = "ok"
             /\ tg_self = SubSeq(Chosen, 1, Least(Matching))
                              \o Tail(tg_out.target)

\* A title joined with the second of two recent targets, the newest not
\* holding a title; the copy ends before the end of the chosen target.
JoinNamedWitness ==
    /\ tg_pc = "joined" /\ tg_out.exc = "ok"
    /\ tg_out.target[1] = StdCoordinate("TIT", "XPREVX", "container")
    /\ Len(tg_args.previous) = 2 /\ Least(Holders) = 2
    /\ Least(Matching) < Len(Chosen)
    /\ tg_self = <<StdCoordinate("TIT", "I", "container"),
                   StdCoordinate("CHP", "A", "container")>>

(***************************************************************************)
(* utils.py: Reference.join, and reflector.py: Reflector._unclose, for the *)
(* references of one string.  An href is the sequence of its characters,   *)
(* a title is that of its href.                                            *)
(***************************************************************************)
MaxRefs == 4

Span(start, end) == [start |-> start, end |-> end]

Reference(span, href, title) == [span |-> span, href |-> href, title |-> title]

\* A join that keeps the href and the title of this.
_ref_join_keep(this, that) == this

\* _ref_join(this, that) inside Reference.join
_ref_join(this, that) ==
    IF startswith(that.href, this.href)
    THEN [this EXCEPT !.href = that.href, !.title = that.title]
    ELSE this

\* Reference.join(other): what it returns, and self as it leaves it
Reference_join(self, other) ==
    IF ~(startswith(self.href, other.href) \/ startswith(other.href, self.href))
    THEN [joined |-> FALSE, self |-> self]
    ELSE IF other.span.start = self.span.end
    THEN [joined |-> TRUE,
          self |-> _ref_join([self EXCEPT !.span = Span(self.span.start,
                                                        other.span.end)],
                             other)]
    ELSE IF self.span.start = other.span.end
    THEN [joined |-> TRUE,
          self |-> _ref_join([self EXCEPT !.span = Span(other.span.start,
                                                        self.span.end)],
                             other)]
    ELSE [joined |-> FALSE, self |-> self]

\* The loop of _unclose over reversed(list(enumerate(refs[:-1]))): k and uk
\* count from 0, ultimate is refs[uk].
RECURSIVE unclose_loop(_, _, _)
unclose_loop(amap_refs, k, uk) ==
    IF k < 0 THEN amap_refs
    ELSE LET j == Reference_join(amap_refs[k + 1], amap_refs[uk + 1])
             kept == [amap_refs EXCEPT ![k + 1] = j.self]
         IN  unclose_loop(IF j.joined THEN PopAt(kept, uk) ELSE kept,
                          k - 1, k)

\* Reflector._unclose, for one entry of the map
_unclose(amap_refs) ==
    IF Len(amap_refs) = 0 THEN amap_refs
    ELSE unclose_loop(amap_refs, Len(amap_refs) - 2, Len(amap_refs) - 1)

UncHrefs == {<<"#", "a">>, <<"#", "a", "b">>, <<"#", "a", "c">>,
             <<"#", "a", "b", "c">>}

title_of(href) == <<"t">> \o href

\* The references of a string in the order of the text: each covers one
\* character and begins where the one before ends, or one character later.
RECURSIVE laid_out(_, _, _)
laid_out(hrefs, gaps, start) ==
    IF hrefs = <<>> THEN <<>>
    ELSE <<Reference(Span(start + gaps[1], start + gaps[1] + 1),
                     hrefs[1], title_of(hrefs[1]))>>
            \o laid_out(Tail(hrefs), Tail(gaps), start + gaps[1] + 1)

UncInit ==
    /\ \E n \in 0..MaxRefs :
          \E hrefs \in [1..n -> UncHrefs], gaps \in [1..n -> {0, 1}] :
              annotations = laid_out(hrefs, gaps, 0)
    /\ unclosed = <<>>
    /\ unc_pc = "start"
    /\ CelexIdle /\ TgIdle /\ MmIdle /\ LrIdle /\ LateIdle /\ CoreIdle

\* self._unclose(annotation_map)
Unclose ==
    /\ unc_pc = "start"
    /\ unclosed' = _unclose(annotations)
    /\ unc_pc' = "done"
    /\ UNCHANGED annotations
    /\ UNCHANGED <<core_vars, celex_vars, tg_vars, mm_vars, lr_vars,
                   late_vars>>

UncNext == Unclose

SpecUnclose == UncInit /\ [][UncNext]_vars

related(a, b) == startswith(a.href, b.href) \/ startswith(b.href, a.href)

\* The reference at i and the next one are exactly adjacent and the href of
\* one is a prefix of the href of the other.
Close(i) ==
    /\ i >= 1 /\ i < Len(annotations)
    /\ annotations[i].span.end = annotations[i + 1].span.start
    /\ related(annotations[i], annotations[i + 1])

\* The runs of such neighbours: where they begin, and where the run that
\* begins at a ends
RunStarts == {a \in 1..Len(annotations) : ~Close(a - 1)}

RunLast(a) == Least({b \in a..Len(annotations) : ~Close(b)})

\* A run whose hrefs are prefixes of one another, all of them
IsChain(a) ==
    \A i \in a..RunLast(a), j \in a..RunLast(a) :
        related(annotations[i], annotations[j])

\* The one reference a run collapses into: both ends of the run, and the
\* longest href with its title
Collapsed(a) ==
    LET longest == CHOOSE i \in a..RunLast(a) :
                      \A j \in a..RunLast(a) :
                          Len(annotations[j].href) <= Len(annotations[i].href)
    IN  Reference(Span(annotations[a].span.start,
                       annotations[RunLast(a)].span.end),
                  annotations[longest].href, annotations[longest].title)

RECURSIVE CollapsedFrom(_)
CollapsedFrom(a) ==
    IF a > Len(annotations) THEN <<>>
    ELSE <<Collapsed(a)>> \o CollapsedFrom(RunLast(a) + 1)

MaxStringLen == 2
MaxMemoryLen == 2

\* The coordinates a string may hold: named ones, and back-references by
\* name ("the Treaty") and without one ("thereof").
MemCoordinates ==
    {<<nPND>>, <<nART>>, <<nPRT>>, <<nPND, nART>>, <<nTRTprev, nART>>,
     <<nTHEREOF, nART>>, <<nTHEREOF, nPRT>>}

\* The targets a memory may hold
MemTargets ==
    {<<StdCoordinate("REG", "32013R0575", "document")>>,
     <<StdCoordinate("REG", "32013R0575", "document"),
       StdCoordinate("TIT", "I", "container")>>,
     <<StdCoordinate("TIT", "I", "container")>>,
     <<StdCoordinate("PG", "2", "paragraph")>>,
     <<docTEU>>,
     <<StdCoordinate("ART", "5", "leaf")>>}

\* The axes the string speaks of; a back-reference to a Treaty looks for a
\* PND.
AxesOf(coords) ==
    LET held == UNION {{standardized(coords[k][i]).std.axis :
                            i \in 1..Len(coords[k])} : k \in 1..Len(coords)}
    IN  held \cup (IF "TRT" \in held THEN {"PND"} ELSE {})

\* A memory none of whose targets holds a coordinate of an axis the string
\* speaks of
Mismatched(holds, coords) ==
    \A k \in 1..Len(holds) :
        \A i \in 1..Len(holds[k]) : holds[k][i].axis \notin AxesOf(coords)

Run(recents) ==
    [recent |-> recents, deepest |-> <<>>, refs |-> {}, errors |-> 0,
     position |-> 0, aborted |-> FALSE]

MemInit ==
    /\ \E n \in 1..MaxStringLen, m \in 1..MaxMemoryLen :
          \E coords \in [1..n -> MemCoordinates],
             holds \in [1..m -> MemTargets] :
              /\ Mismatched(holds, coords)
              /\ mm_string = coords
              /\ mm_memory = holds
              /\ mm_runs = [empty |-> Run(<<>>), mismatched |-> Run(holds)]
    /\ CelexIdle /\ TgIdle /\ UncIdle /\ LrIdle /\ LateIdle /\ CoreIdle

\* The run after a pass r of the loop body on the coordinate at position
\* at: the reference is the span of the coordinate with what get_href and
\* get_spoken make of the target.
run_after(run, at, r) ==
    [recent |-> IF r.clause = "yield"
                THEN turn(run.recent, MEM_SIZE, r.deepest)
                ELSE run.recent,
     deepest |-> r.deepest,
     refs |-> IF r.clause = "yield"
              THEN run.refs \cup {[span |-> at, target |-> r.target]}
              ELSE run.refs,
     errors |-> IF r.clause \in {"break", "count"}
                THEN run.errors + 1 ELSE run.errors,
     position |-> at,
     aborted |-> r.clause = "break"]

\* One pass of the loop over sequence.iter_coordinates() in one of the runs
MemStep(which) ==
    /\ mm_runs # <<>>
    /\ mm_runs[which].position < Len(mm_string)
    /\ ~mm_runs[which].aborted
    /\ mm_runs' =
         [mm_runs EXCEPT ![which] =
            run_after(@, @.position + 1,
                      iter_references_body(mm_string[@.position + 1], <<>>,
                                           NoDocument, "token", @.recent,
                                           @.deepest))]
    /\ UNCHANGED <<mm_string, mm_memory>>
    /\ UNCHANGED <<core_vars, celex_vars, tg_vars, unc_vars, lr_vars,
                   late_vars>>

MemNext == MemStep("empty") \/ MemStep("mismatched")

SpecMemory == MemInit /\ [][MemNext]_vars

Over(run) == run.aborted \/ run.position = Len(mm_string)

BothOver == mm_runs # <<>> /\ Over(mm_runs.empty) /\ Over(mm_runs.mismatched)

\* C16: for any string, the references emitted by the run that starts with
\* an empty memory include those emitted by the run that starts with a
\* mismatched memory.
C16_EmptyMemorySuperset ==
    BothOver => mm_runs.mismatched.refs \subseteq mm_runs.empty.refs

\* The first coordinate of a named back-reference
Named(path) == Len(path) = 2 /\ path[1].vtag = "XPREVX"

Anonymous(path) == Len(path) = 2 /\ path[1] = nTHEREOF

\* A string without an anonymous back-reference has the same references and
\* the same count of errors in both runs.
MemoryNamedAgree ==
    (BothOver /\ \A k \in 1..Len(mm_string) : ~Anonymous(mm_string[k]))
        => /\ mm_runs.mismatched.refs = mm_runs.empty.refs
           /\ mm_runs.mismatched.errors = mm_runs.empty.errors

MemoryNamedWitness ==
    /\ BothOver
    /\ \E k \in 1..Len(mm_string) : Named(mm_string[k])
    /\ mm_runs.empty.errors = 1
    /\ mm_runs.empty.refs # {}

(***************************************************************************)
(* utils.py: limit_recursion_depth(limit), wrapped around the function of  *)
(* tests/test_limit_recursion_depth.py,                                    *)
(*     def cumbersome_identity(n):                                         *)
(*         if n <= 1: return n                                             *)
(*         return 1 + cumbersome_identity(n - 1)                           *)
(* which does not catch the error.                                         *)
(***************************************************************************)
MaxLimit == 3
MaxArgument == 5
MaxTopCalls == 3

\* A finally clause that decrements whatever the counter is.
left_always(depth) == depth - 1

\* finally: if f.recursion_depth > 0: f.recursion_depth -= 1
left_positive(depth) == IF depth > 0 THEN depth - 1 ELSE depth

LrInit ==
    /\ lr_limit \in 0..MaxLimit
    /\ lr_n = 0 /\ lr_frames = <<>> /\ recursion_depth_f = 0
    /\ lr_pc = "idle" /\ lr_result = 0 /\ lr_deepest = 0 /\ lr_calls = 0
    /\ lr_raised = FALSE
    /\ CelexIdle /\ TgIdle /\ UncIdle /\ MmIdle /\ LateIdle /\ CoreIdle

lr_others == <<core_vars, celex_vars, tg_vars, unc_vars, mm_vars, late_vars>>

\* A top-level call ci(n)
LrCall(n) ==
    /\ lr_pc \in {"idle", "done", "raised"}
    /\ lr_calls < MaxTopCalls
    /\ lr_calls' = lr_calls + 1
    /\ lr_raised' = (lr_raised \/ lr_pc = "raised")
    /\ lr_n' = n
    /\ lr_frames' = <<>>
    /\ lr_deepest' = 0
    /\ lr_result' = 0
    /\ lr_pc' = "call"
    /\ UNCHANGED <<lr_limit, recursion_depth_f>>
    /\ UNCHANGED lr_others

\* wrapped(n) up to the call of f: the counter, the test of the limit
LrEnter ==
    /\ lr_pc = "call"
    /\ lr_deepest' = Len(lr_frames) + 1
    /\ IF exceeds(recursion_depth_f + 1, lr_limit)
       THEN /\ recursion_depth_f' = 0
            /\ lr_pc' = "raise"
            /\ UNCHANGED lr_frames
       ELSE /\ recursion_depth_f' = recursion_depth_f + 1
            /\ lr_frames' = Append(lr_frames,
                                   IF lr_frames = <<>> THEN lr_n
                                   ELSE lr_frames[Len(lr_frames)] - 1)
            /\ lr_pc' = "body"
    /\ UNCHANGED <<lr_limit, lr_n, lr_result, lr_calls, lr_raised>>
    /\ UNCHANGED lr_others

\* The body of cumbersome_identity up to its return or to its call of
\* itself
LrBody ==
    /\ lr_pc = "body"
    /\ IF lr_frames[Len(lr_frames)] <= 1
       THEN /\ lr_result' = lr_frames[Len(lr_frames)]
            /\ lr_pc' = "return"
       ELSE /\ lr_pc' = "call"
            /\ UNCHANGED lr_result
    /\ UNCHANGED <<lr_limit, lr_n, lr_frames, recursion_depth_f, lr_deepest,
                   lr_calls, lr_raised>>
    /\ UNCHANGED lr_others

\* f has returned: the finally clause of wrapped, return result; the
\* caller, if any, adds 1 and returns in its turn.
LrReturn ==
    /\ lr_pc = "return"
    /\ recursion_depth_f' = left_positive(recursion_depth_f)
    /\ lr_frames' = PopLast(lr_frames)
    /\ IF Len(lr_frames) = 1
       THEN lr_pc' = "done" /\ UNCHANGED lr_result
       ELSE lr_pc' = "return" /\ lr_result' = 1 + lr_result
    /\ UNCHANGED <<lr_limit, lr_n, lr_deepest, lr_calls, lr_raised>>
    /\ UNCHANGED lr_others

\* The RecursionError passes through an activation of f and the finally
\* clause of its wrapper, or leaves the top-level call.
LrUnwind ==
    /\ lr_pc = "raise"
    /\ IF lr_frames = <<>>
       THEN /\ lr_pc' = "raised"
            /\ UNCHANGED <<recursion_depth_f, lr_frames>>
       ELSE /\ recursion_depth_f' = left_positive(recursion_depth_f)
            /\ lr_frames' = PopLast(lr_frames)
            /\ UNCHANGED lr_pc
    /\ UNCHANGED <<lr_limit, lr_n, lr_result, lr_deepest, lr_calls,
                   lr_raised>>
    /\ UNCHANGED lr_others

LrNext ==
    \/ \E n \in 0..MaxArgument : LrCall(n)
    \/ LrEnter
    \/ LrBody
    \/ LrReturn
    \/ LrUnwind

SpecLimit == LrInit /\ [][LrNext]_vars

\* The nesting cumbersome_identity(n) needs
nesting(n) == IF n <= 1 THEN 1 ELSE n

\* C21: a top-level call raises RecursionError exactly when its nesting
\* reaches the depth limit + 1, and otherwise returns the result of the
\* function, whether or not an earlier call raised; the depth counter is 0
\* whenever no call is in progress.
C21_LimitRecursionDepth ==
    /\ lr_pc \in {"idle", "done", "raised"} => recursion_depth_f = 0
    /\ lr_pc = "raised" => nesting(lr_n) > lr_limit /\ lr_deepest = lr_limit + 1
    /\ lr_pc = "done" => /\ nesting(lr_n) <= lr_limit
                         /\ lr_deepest = nesting(lr_n)
                         /\ lr_result = lr_n
    /\ lr_pc \in {"call", "body", "return"} =>
           recursion_depth_f = Len(lr_frames)

\* A call that returns after an earlier call of the same function raised,
\* as ci(3) and then ci(2) with the limit 2.
C21_Witness ==
    /\ lr_pc = "done"
    /\ lr_raised
    /\ lr_limit = 2
    /\ lr_n = 2
    /\ lr_result = 2

C21_WitnessRaised ==
    /\ lr_pc = "raised"
    /\ lr_limit = 0
    /\ lr_n = 0
    /\ lr_calls = 2

(***************************************************************************)
(* utils.py: VirtualMarkup.attach and VirtualMarkup.add_markups.  The      *)
(* string is the sequence of its characters; a marker is the text_span and *)
(* the tail_span of a SupMarker; the element is what add_markups leaves in *)
(* the tree: the text (or tail) it set, and the text and the tail of each  *)
(* anchor it inserted.                                                     *)
(***************************************************************************)
MaxAnchors == 2
MaxStringEnd == 4

VmStrings == {<<"a", "b", "c", "d">>, <<"a", "a", "b">>}

VmSpans == {Span(a, b) : a \in 0..MaxStringEnd, b \in 0..MaxStringEnd + 1}

\* A tail that is left as it was when the marker was made.
tail_kept(tail_span, start) == tail_span

\* pre.tail_span = Span(pre.tail_span.start, span.start)
tail_until(tail_span, start) == Span(tail_span.start, start)

\* VirtualMarkup.attach(span, tag, attrib), for a span that ends inside the
\* string
attach(self, span, len) ==
    [text_span |-> IF self.markers = <<>> THEN Span(0, span.start)
                   ELSE self.text_span,
     markers |->
        (IF self.markers = <<>> THEN <<>>
         ELSE [self.markers EXCEPT ![Len(self.markers)].tail_span =
                  tail_until(@, span.start)])
        \o <<[text_span |-> span, tail_span |-> Span(span.end, len)]>>]

\* string[span.start:span.end]
Sliced(string, span) == Slice(string, span.start, span.end)

VmInit ==
    /\ vm_string \in VmStrings
    /\ \E n \in 0..MaxAnchors : vm_references \in [1..n -> VmSpans]
    /\ vm_nested \in BOOLEAN
    /\ vm_self = NoMarkup
    /\ vm_pc = "start"
    /\ vm_out = NoElement
    /\ CelexIdle /\ TgIdle /\ UncIdle /\ MmIdle /\ LrIdle /\ SqIdle /\ AmIdle
    /\ CoreIdle

vm_others ==
    <<core_vars, celex_vars, tg_vars, unc_vars, mm_vars, lr_vars, sq_vars,
      am_vars>>

\* add_markups returns at once: no references, or the text of an anchor
SkipMarkups ==
    /\ vm_pc = "start"
    /\ Len(vm_references) = 0 \/ vm_nested
    /\ vm_out' = [text |-> vm_string, anchors |-> <<>>]
    /\ vm_pc' = "skipped"
    /\ UNCHANGED <<vm_string, vm_references, vm_nested, vm_self>>
    /\ UNCHANGED vm_others

\* self = cls(before_text)
NewMarkup ==
    /\ vm_pc = "start"
    /\ ~(Len(vm_references) = 0 \/ vm_nested)
    /\ vm_self' = [text_span |-> Span(0, Len(vm_string)), markers |-> <<>>]
    /\ vm_pc' = "attach"
    /\ UNCHANGED <<vm_string, vm_references, vm_nested, vm_out>>
    /\ UNCHANGED vm_others

\* for ref in references: self.attach(ref.span, tag, ...)
Attach ==
    /\ vm_pc = "attach"
    /\ Len(vm_self.markers) < Len(vm_references)
    /\ IF vm_references[Len(vm_self.markers) + 1].end > Len(vm_string)
       THEN vm_pc' = "raised" /\ UNCHANGED vm_self
       ELSE /\ vm_self' = attach(vm_self,
                                 vm_references[Len(vm_self.markers) + 1],
                                 Len(vm_string))
            /\ UNCHANGED vm_pc
    /\ UNCHANGED <<vm_string, vm_references, vm_nested, vm_out>>
    /\ UNCHANGED vm_others

\* setattr(descendant, attrib_name, self.text), and the anchors inserted
\* with their text and tail
Splice ==
    /\ vm_pc = "attach"
    /\ Len(vm_self.markers) = Len(vm_references)
    /\ vm_out' =
         [text |-> Sliced(vm_string, vm_self.text_span),
          anchors |->
             [k \in 1..Len(vm_self.markers) |->
                 [text |-> Sliced(vm_string, vm_self.markers[k].text_span),
                  tail |-> Sliced(vm_string, vm_self.markers[k].tail_span)]]]
    /\ vm_pc' = "done"
    /\ UNCHANGED <<vm_string, vm_references, vm_nested, vm_self>>
    /\ UNCHANGED vm_others

VmNext == SkipMarkups \/ NewMarkup \/ Attach \/ Splice

SpecMarkup == VmInit /\ [][VmNext]_vars

\* The spans lie inside the text, are in increasing order and do not
\* overlap.
WellPlaced ==
    /\ \A k \in 1..Len(vm_references) :
          /\ vm_references[k].start <= vm_references[k].end
          /\ vm_references[k].end <= Len(vm_string)
    /\ \A k \in 1..Len(vm_references) - 1 :
          vm_references[k].end <= vm_references[k + 1].start

RECURSIVE Concatenated(_)
Concatenated(anchors) ==
    IF anchors = <<>> THEN <<>>
    ELSE anchors[1].text \o anchors[1].tail \o Concatenated(Tail(anchors))

\* C22: for references whose spans lie inside the text, are in increasing
\* order and do not overlap, the remaining leading text followed by the
\* text and the tail of each anchor in order is the original string, and
\* the text of each anchor is the substring at the span of its reference.
C22_SplicePreserves ==
    WellPlaced =>
        /\ vm_pc # "raised"
        /\ vm_pc \in {"done", "skipped"} =>
              vm_out.text \o Concatenated(vm_out.anchors) = vm_string
        /\ vm_pc = "done" =>
              /\ Len(vm_out.anchors) = Len(vm_references)
              /\ \A k \in 1..Len(vm_references) :
                    vm_out.anchors[k].text
                        = SubSeq(vm_string, vm_references[k].start + 1,
                                 vm_references[k].end)

\* Two anchors with text between, before and after them, as in
\* tests/test_virtual_markup.py.
C22_Witness ==
    /\ vm_pc = "done"
    /\ WellPlaced
    /\ vm_string = <<"a", "b", "c", "d">>
    /\ vm_references = <<Span(1, 2), Span(3, 4)>>
    /\ vm_out = [text |-> <<"a">>,
                 anchors |-> <<[text |-> <<"b">>, tail |-> <<"c">>],
                               [text |-> <<"d">>, tail |-> <<>>]>>]

\* Spans that overlap are spliced all the same, and the text is not
\* preserved.
MarkupOverlapWitness ==
    /\ vm_pc = "done"
    /\ ~WellPlaced
    /\ vm_out.text \o Concatenated(vm_out.anchors) # vm_string

(***************************************************************************)
(* token_sequences.py: TokenSequence._cleanup under repeat_until_true, on  *)
(* the sequences of up to MaxCleanupTokens tokens of the tags CleanupTags. *)
(***************************************************************************)
MaxCleanupTokens == 4

CleanupTags == <<"ART", "NM", "AND", "SPCLPR", "SRNK", "TEEC">>

CleanupTagLists ==
    UNION {[1..n -> {CleanupTags[k] : k \in 1..Len(CleanupTags)}] :
           n \in 1..MaxCleanupTokens}

sq_others ==
    <<core_vars, celex_vars, tg_vars, unc_vars, mm_vars, lr_vars, vm_vars,
      am_vars>>

SqOthersIdle ==
    /\ CelexIdle /\ TgIdle /\ UncIdle /\ MmIdle /\ LrIdle /\ VmIdle /\ AmIdle
    /\ CoreIdle

CleanupInit ==
    /\ \E t \in CleanupTagLists : sq_input = RawSequence(t, 0)
    /\ sq_self = sq_input
    /\ sq_count = 0
    /\ sq_pc = "cleanup"
    /\ sq_exc = "ok"
    /\ sq_par = <<>>
    /\ SqOthersIdle

\* wrapped, one turn of `for _ in range(limit)`: the body of _cleanup is
\* called and the loop is left when it returns True; after the last turn
\* wrapped returns False.
CleanupPass ==
    /\ sq_pc = "cleanup"
    /\ sq_count < CLEANUP_LIMIT
    /\ sq_self' = cleanup_pass(sq_self).list
    /\ sq_count' = sq_count + 1
    /\ sq_pc' = IF cleanup_pass(sq_self).done THEN "stopped"
                ELSE IF sq_count + 1 = CLEANUP_LIMIT THEN "exhausted"
                ELSE "cleanup"
    /\ UNCHANGED <<sq_input, sq_exc, sq_par>>
    /\ UNCHANGED sq_others

CleanupNext == CleanupPass

SpecCleanup == CleanupInit /\ [][CleanupNext]_vars

\* A rule of the seven is applicable to the list: it would change it.
Applicable(list) ==
    \/ cleanup_1a(list) # list
    \/ cleanup_1b(list) # list
    \/ cleanup_orphan_axes(list) # list
    \/ cleanup_axis_connector(list) # list
    \/ cleanup_single(list) # list
    \/ cleanup_of_day(list) # list
    \/ cleanup_first_end(list) # list

\* C25: whenever cleanup stops before the 16th pass, none of the seven
\* rules is applicable to the sequence it leaves.
C25_CleanupFixedPoint ==
    (sq_pc = "stopped" /\ sq_count < CLEANUP_LIMIT) => ~Applicable(sq_self)

\* What holds instead: cleanup stops after the first pass in which none of
\* the first five rules fired, whatever of_day and first_end did in it.
CleanupStopsOnFive ==
    [][sq_pc = "cleanup" =>
          (sq_pc' = "stopped") = (cleanup_effect(sq_self) = sq_self)]_vars

\* A pass in which of_day alone fired was the last, and left a sequence
\* with a trailing connector.
CleanupStopsOnFiveWitness ==
    /\ sq_pc = "stopped"
    /\ sq_count = 1
    /\ sq_self # sq_input
    /\ cleanup_1a(sq_self) # sq_self

(***************************************************************************)
(* token_sequences.py: TokenSequence._handle_pattern_fourth_directive on   *)
(* the sequences of up to MaxHandlerTokens tokens of the tags HandlerTags. *)
(***************************************************************************)
MaxHandlerTokens == 4

HandlerTags == <<"SRNK", "DIR", "REG", "NM", "TEEC">>

HandlerTagLists ==
    UNION {[1..n -> {HandlerTags[k] : k \in 1..Len(HandlerTags)}] :
           n \in 1..MaxHandlerTokens}

HandlerInit ==
    /\ \E t \in HandlerTagLists : sq_input = RawSequence(t, 0)
    /\ sq_self = sq_input
    /\ sq_count = 0
    /\ sq_pc = "handle"
    /\ sq_exc = "ok"
    /\ sq_par = <<>>
    /\ SqOthersIdle

\* self._handle_pattern_fourth_directive(); sq_count is the number of
\* matches finditer gave.
HandleFourthDirective ==
    /\ sq_pc = "handle"
    /\ sq_self' = _handle_pattern("fourth_directive", sq_self).list
    /\ sq_exc' = _handle_pattern("fourth_directive", sq_self).exc
    /\ sq_count' = Len(finditer("fourth_directive", sq_self))
    /\ sq_pc' = "handled"
    /\ UNCHANGED <<sq_input, sq_par>>
    /\ UNCHANGED sq_others

HandlerNext == HandleFourthDirective

SpecFourthDirective == HandlerInit /\ [][HandlerNext]_vars

\* The matches of fourth_directive in the sequence the handler was given
FourthMatches == finditer("fourth_directive", sq_input)

\* The token is in the sequence as it was in the input
Left(tok) == \E k \in 1..Len(sq_self) : sq_self[k] = tok

\* C29: the fourth_directive handler replaces an SRNK token directly
\* followed by a REG, DIR or DEC axis token by one axis token whose span
\* covers both: after the handler the sequence is one token shorter per
\* match and neither of the two original tokens is left in it.
C29_FourthDirectiveMerges ==
    sq_pc = "handled" =>
        /\ sq_exc = "ok"
        /\ Len(sq_self) = Len(sq_input) - Len(FourthMatches)
        /\ \A k \in 1..Len(FourthMatches) :
              /\ ~Left(sq_input[FourthMatches[k].i])
              /\ ~Left(sq_input[FourthMatches[k].e])
              /\ \E j \in 1..Len(sq_self) :
                    /\ sq_self[j].group = "axis"
                    /\ sq_self[j].tag = sq_input[FourthMatches[k].e].tag
                    /\ sq_self[j].start = sq_input[FourthMatches[k].i].start
                    /\ sq_self[j].end = sq_input[FourthMatches[k].e].end

\* What the handler does: the merged token takes the place of the SRNK
\* token and the axis token stays behind it, the length being the same; an
\* axis token without a tail makes the handler raise TypeError.
FourthDirectiveReplacesRank ==
    (sq_pc = "handled" /\ sq_exc = "ok") =>
        /\ Len(sq_self) = Len(sq_input)
        /\ \A k \in 1..Len(sq_input) :
              IF \E j \in 1..Len(FourthMatches) : FourthMatches[j].i = k
              THEN /\ sq_self[k].group = "axis"
                   /\ sq_self[k].tag = sq_input[k + 1].tag
                   /\ sq_self[k].start = sq_input[k].start
                   /\ sq_self[k].end = sq_input[k + 1].end
                   /\ sq_self[k + 1] = sq_input[k + 1]
              ELSE sq_self[k] = sq_input[k]

FourthDirectiveWitness ==
    /\ sq_pc = "handled"
    /\ sq_exc = "ok"
    /\ Len(FourthMatches) = 1
    /\ Len(sq_input) = 3

FourthDirectiveRaises ==
    /\ sq_pc = "handled"
    /\ sq_exc = "TypeError"

(***************************************************************************)
(* token_sequences.py: TokenSequence.finalize, for the tree _nesting       *)
(* builds, on the sequences of up to MaxNestTokens tokens of the tags      *)
(* NestTags.                                                               *)
(***************************************************************************)
MaxNestTokens == 5

NestTags == <<"ART", "PG", "NM", "SPCLPR", "TEEC">>

NestTagLists ==
    {t \in UNION {[1..n -> {NestTags[k] : k \in 1..Len(NestTags)}] :
                  n \in 1..MaxNestTokens} : Extractable(t)}

NestInit ==
    /\ \E t \in NestTagLists : sq_input = RawSequence(t, 0)
    /\ sq_self = sq_input
    /\ sq_count = 0
    /\ sq_pc = "finalize"
    /\ sq_exc = "ok"
    /\ sq_par = NoParents(sq_input)
    /\ SqOthersIdle

\* sequence.finalize()
Finalize ==
    /\ sq_pc = "finalize"
    /\ sq_self' = finalize(sq_input).list
    /\ sq_par' = finalize(sq_input).par
    /\ sq_exc' = finalize(sq_input).exc
    /\ sq_pc' = "finalized"
    /\ UNCHANGED <<sq_input, sq_count>>
    /\ UNCHANGED sq_others

NestNext == Finalize

SpecNesting == NestInit /\ [][NestNext]_vars

\* The edges of the tree: child and parent, as indices of the sequence
Edges == {k \in 1..Len(sq_par) : sq_par[k] # 0}

\* C26: after nesting, for every parent/child edge between coordinates of
\* a sequence, parent.level < child.level.
C26_LevelsGrow ==
    (sq_pc = "finalized" /\ sq_exc = "ok") =>
        \A k \in Edges : level(sq_self[sq_par[k]]) < level(sq_self[k])

\* The same of the tree a nesting that raised has left
LevelsGrowWhenRaised ==
    (sq_pc = "finalized" /\ sq_exc # "ok") =>
        \A k \in Edges : level(sq_self[sq_par[k]]) < level(sq_self[k])

\* 'Article 5 of the Treaty': an edge made by left_of_right
LeftOfRightEdge ==
    /\ sq_pc = "finalized"
    /\ sq_exc = "ok"
    /\ Len(sq_self) = 3
    /\ TagAt(sq_self, 2, {"SPCLPR"})
    /\ sq_par = <<3, 0, 0>>

(***************************************************************************)
(* reflector.py: Reflector.__call__ on a list of strings and on an XML     *)
(* element, whose strings iter_texts lists in document order.  A string is *)
(* the sequence of the coordinates of its one token sequence.  The         *)
(* Reflector has no context, no min_role, and unclose is off.              *)
(***************************************************************************)
MaxInputs == 3

\* 'Treaty establishing the European Economic Community', 'Article 5
\* thereof', 'Part 1', and the first two in one string
AmTexts ==
    {<<<<nPND>>>>, <<<<nTHEREOF, nART>>>>, <<<<nPRT>>>>,
     <<<<nPND>>, <<nTHEREOF, nART>>>>}

\* What earlier calls may have left in the memory
AmMemories == {<<>>, <<<<docTEU>>>>}

AmInit ==
    /\ \E n \in 1..MaxInputs : am_inputs \in [1..n -> AmTexts]
    /\ am_kind \in {"list", "element"}
    /\ am_mode \in {"annotate", "markup"}
    /\ am_memory \in AmMemories
    /\ am_remember = FALSE
    /\ am_problematics = <<>>
    /\ am_map = <<>> /\ am_own = <<>> /\ am_out = <<>>
    /\ am_pc = "call"
    /\ CelexIdle /\ TgIdle /\ UncIdle /\ MmIdle /\ LrIdle /\ VmIdle /\ SqIdle
    /\ CoreIdle

am_others ==
    <<core_vars, celex_vars, tg_vars, unc_vars, mm_vars, lr_vars, vm_vars,
      sq_vars>>

\* The run after the pass r on the coordinate at position at, the cycle
\* being of the given length
run_turning(run, at, r, cycle_length) ==
    [run_after(run, at, r) EXCEPT
        !.recent = IF r.clause = "yield"
                   THEN turn(run.recent, cycle_length, r.deepest)
                   ELSE run.recent]

\* list(ts.iter_references(...)) from the state run of the loop on
RECURSIVE iter_references(_, _, _)
iter_references(coords, run, cycle_length) ==
    IF run.aborted \/ run.position = Len(coords) THEN run
    ELSE iter_references(
             coords,
             run_turning(run, run.position + 1,
                         iter_references_body(coords[run.position + 1], <<>>,
                                              NoDocument, "token", run.recent,
                                              run.deepest),
                         cycle_length),
             cycle_length)

\* Reflector._get_annotations(text, remember): the run of iter_references,
\* on self.memory or on a Cycle(4) of its own
_get_annotations(text_coords, remembers, holds) ==
    IF remembers THEN iter_references(text_coords, Run(holds), MEM_SIZE)
    ELSE iter_references(text_coords, Run(<<>>), DEFAULT_CYCLE)

\* The place of the key in the dict, 0 when it is not in it
KeyIndex(amap, key) ==
    IF \E j \in 1..Len(amap) : amap[j].text = key
    THEN CHOOSE j \in 1..Len(amap) : amap[j].text = key
    ELSE 0

\* amap[key] = value
setitem(amap, key, value) ==
    IF KeyIndex(amap, key) = 0
    THEN Append(amap, [text |-> key, references |-> value])
    ELSE [amap EXCEPT ![KeyIndex(amap, key)].references = value]

\* amap[key]
getitem(amap, key) == amap[KeyIndex(amap, key)].references

\* __call__ up to the dict comprehension of _get_annotations_map: a list is
\* passed without remember, the strings of an element with remember=True,
\* which renews the memory.
AmCall ==
    /\ am_pc = "call"
    /\ am_remember' = (am_kind = "element")
    /\ am_memory' = IF am_kind = "element" THEN <<>> ELSE am_memory
    /\ am_pc' = "texts"
    /\ UNCHANGED <<am_inputs, am_kind, am_mode, am_problematics, am_map,
                   am_own, am_out>>
    /\ UNCHANGED am_others

\* One item of {inp: self._get_annotations(inp, remember) for inp in inputs}
GetAnnotations ==
    /\ am_pc = "texts"
    /\ Len(am_own) < Len(am_inputs)
    /\ am_own' =
         Append(am_own,
                _get_annotations(am_inputs[Len(am_own) + 1], am_remember,
                                 am_memory).refs)
    /\ am_map' =
         setitem(am_map, am_inputs[Len(am_own) + 1],
                 _get_annotations(am_inputs[Len(am_own) + 1], am_remember,
                                  am_memory).refs)
    /\ am_memory' =
         IF am_remember
         THEN _get_annotations(am_inputs[Len(am_own) + 1], am_remember,
                               am_memory).recent
         ELSE am_memory
    /\ am_problematics' =
         IF _get_annotations(am_inputs[Len(am_own) + 1], am_remember,
                             am_memory).errors > 0
         THEN Append(am_problematics, am_inputs[Len(am_own) + 1])
         ELSE am_problematics
    /\ UNCHANGED <<am_inputs, am_kind, am_mode, am_remember, am_pc, am_out>>
    /\ UNCHANGED am_others

\* The rest of __call__: the records of the items of the dict, or, for an
\* element in markup mode, add_all_markups, which gives each string of the
\* element the anchors of annotations_[text].
AmReturn ==
    /\ am_pc = "texts"
    /\ Len(am_own) = Len(am_inputs)
    /\ am_out' =
         IF am_mode = "markup" /\ am_kind = "element"
         THEN [k \in 1..Len(am_inputs) |->
                  [text |-> am_inputs[k],
                   references |-> getitem(am_map, am_inputs[k])]]
         ELSE am_map
    /\ am_pc' = "done"
    /\ UNCHANGED <<am_inputs, am_kind, am_mode, am_memory, am_remember,
                   am_problematics, am_map, am_own>>
    /\ UNCHANGED am_others

AmNext == AmCall \/ GetAnnotations \/ AmReturn

SpecAnnotationsMap == AmInit /\ [][AmNext]_vars

\* C30: when an element or a list holds the same string at two positions,
\* each occurrence is annotated with the references computed for its own
\* position, with the memory reached at that position: a later result does
\* not replace an earlier one, and annotate mode returns one record per
\* input string.
C30_OwnAnnotations ==
    am_pc = "done" =>
        /\ \A k \in 1..Len(am_inputs) :
              getitem(am_map, am_inputs[k]) = am_own[k]
        /\ am_mode = "annotate" => Len(am_out) = Len(am_inputs)

\* The two halves of it
OwnReferencesKept ==
    am_pc = "done" =>
        \A k \in 1..Len(am_inputs) : getitem(am_map, am_inputs[k]) = am_own[k]

OneRecordPerString ==
    (am_pc = "done" /\ am_mode = "annotate")
        => Len(am_out) = Len(am_inputs)

\* Without a string that occurs twice, every string keeps its own result
\* and has its record.
DistinctStringsKept ==
    (am_pc = "done"
     /\ \A j, k \in 1..Len(am_inputs) : am_inputs[j] = am_inputs[k] => j = k)
        => /\ \A k \in 1..Len(am_inputs) :
                 getitem(am_map, am_inputs[k]) = am_own[k]
           /\ Len(am_map) = Len(am_inputs)

\* 'Article 5 thereof', the Treaty, 'Article 5 thereof' in an element: the
\* first has no reference of its own, the second has one, and both are
\* given that of the second.
RepeatedStringWitness ==
    /\ am_pc = "done"
    /\ am_kind = "element"
    /\ am_inputs = <<<<<<nTHEREOF, nART>>>>, <<<<nPND>>>>,
                     <<<<nTHEREOF, nART>>>>>>
    /\ am_own[1] = {}
    /\ am_own[3] # {}
    /\ getitem(am_map, am_inputs[1]) = am_own[3]

(***************************************************************************)
(* Properties of the recent cycle under the specification Spec             *)
(***************************************************************************)
\* C23: processing one sequence adds exactly one entry to the recent cycle,
\* and that entry is the deepest target of the sequence: once a pass of the
\* sequence has turned a target in, no later pass of the same sequence
\* turns in another, and when the sequence ends the newest entry is the
\* value of deepest.
C23_OneEntryPerSequence ==
    /\ [][(pc = "seq" /\ seqLen >= 1 /\ last.clause = "yield"
              /\ pc' = "seq")
             => turnedInCall' = turnedInCall]_vars
    /\ [][(pc = "seq" /\ pc' = "text")
             => /\ turnedInCall # <<>>
                /\ turnedInCall[1].target = deepest]_vars

\* What happens instead: every pass that emits a reference turns the
\* value deepest has at that time into the cycle.
TurnPerReference ==
    [][(pc = "seq" /\ seqLen' = seqLen + 1)
          => IF last'.clause = "yield"
             THEN /\ Len(turnedInCall') = Len(turnedInCall) + 1
                  /\ turnedInCall'[1].target = deepest'
             ELSE turnedInCall' = turnedInCall]_vars

\* A sequence two of whose passes emitted a reference and turned a target
\* in
TurnPerReferenceWitness ==
    /\ pc = "seq"
    /\ seqLen = 2
    /\ Len(refs) = 2
    /\ Len(turnedInCall) = 2

\* The values that stand for a back-reference
Placeholders == {"XPREVX", "BRCRPL", "THEREOF"}

HoldsPlaceholder(target) ==
    \E i \in 1..Len(target) : target[i].value \in Placeholders

\* C24: after any sequence of texts processed with memory, no target
\* stored in the memory holds a back-reference placeholder; a target whose
\* join failed, or that a failed join left half-joined, is never stored.
C24_NoPlaceholderRemembered ==
    \A k \in 1..Len(memory) : ~HoldsPlaceholder(memory[k])
====
